---------------------------- MODULE Spec2Model ----------------------------
(***************************************************************************)
(* A model of hero_processor_v2: the Reference Resolver                    *)
(* (hero_parser._resolve_recursive, driven by                              *)
(* hero_main.phase_one_integrate_data), the Value Resolver                 *)
(* (hero_parser.find_and_calculate_value), the Template Matcher            *)
(* (hero_parser.find_best_lang_id), the rendering of a template            *)
(* (hero_parser.generate_description, format_value) and phase 2            *)
(* (hero_main.phase_two_parse_skills with the parsers of hero_parser, and  *)
(* hero_main.analyze_unresolved_placeholders).                             *)
(*                                                                         *)
(* Python strings are TLA+ strings, read character by character with       *)
(* SubSeq.  A JSON value is a tagged record: [t |-> "str", s |-> ..],      *)
(* [t |-> "num", n |-> ..], [t |-> "bool", b |-> ..],                      *)
(* [t |-> "dict", kv |-> <<[k |-> key, v |-> value], ..>>] (insertion      *)
(* order kept, as a Python dict keeps it) and [t |-> "list", el |-> <<..>>]*)
(* Objects the resolver mutates in place live in a heap: a dict or list    *)
(* object holds [t |-> "ref", a |-> address] for a nested container.       *)
(***************************************************************************)
EXTENDS Integers, Sequences, FiniteSets, TLC

VARIABLES
    \* ---- Reference Resolver (phase 1) ----
    heap,            \* address -> dict or list object (the Python objects)
    master_db,       \* game_db['master_db']: catalog key -> address of its entry
    heroes,          \* game_db['heroes']: sequence of addresses of raw hero records
    catalogJ,        \* the catalog as loaded (key -> JSON value), kept for comparison
    heroesJ,         \* the raw hero records as loaded (JSON values), kept for comparison
    hi,              \* phase_one_integrate_data: index of the hero being integrated
    debug_data,      \* all_heroes_debug_data: sequence of [id, root] in insertion order
    resolved_data,   \* get_full_hero_data: address of the clone being resolved (0: none)
    processed_objs,  \* processed_ids, the id(object) members
    processed_keys,  \* processed_ids, the catalog-key members
    stack,           \* the call stack of _resolve_recursive
    freed,           \* addresses in processed_objs whose object has been released
    released,        \* every address released during the current resolve call
    nextAddr,        \* the next never-used address
    rpc,             \* "idle" | "resolving" | "done"
    expandCount,     \* per catalog key: clones made of it in the current resolve call
    log,             \* references to catalog keys met by the traversal, in order
    steps,           \* steps taken by the current resolve call
    \* ---- Value Resolver ----
    csv_all,         \* the rows of exception_hero_rules.csv, as read
    csv_rows,        \* the rows load_rules_from_csvs has still to process
    rules,           \* rules["hero_rules"]: [specific, common]
    vcalled,         \* find_and_calculate_value has been called
    vcall,           \* the arguments of its last call
    vres,            \* the (value, source) it returned
    \* ---- Template Matcher ----
    lang_key_subset, \* the candidate ids
    m_block,         \* data_block
    m_parent,        \* parent_block
    m_done,          \* find_best_lang_id has returned
    m_res,           \* the (id, warning) it returned
    familiar_debug_log, \* parsers["familiar_debug_log"]
    \* ---- Rendering ----
    g_lang_id,       \* generate_description: the template id
    g_params,        \* the parameters found for the template, unformatted
    g_done,          \* the description has been generated
    g_desc,          \* the {"en", "ja"} texts generated
    \* ---- Phase 2 (phase_two_parse_skills, called by main) ----
    p_input,         \* the ids of game_db['heroes'], in the order of the list
    p_order,         \* the hero ids of debug_data, in its order
    p_rules,         \* rules: what load_rules_from_csvs returned
    p_run,           \* which call of phase_two_parse_skills with this parsers object
    p_i,             \* the index of the hero of the loop
    p_pc,            \* where the call stands
    p_ctx,           \* the parsers dict: the values the parsers read and write
    p_skill,         \* skill_descriptions of the hero of the loop
    p_last,          \* what the parser called last returned: items and warnings
    p_out,           \* processed_heroes_data
    p_first,         \* what the first call returned and the warnings it left
    p_report         \* unresolved_counter of analyze_unresolved_placeholders

rvars == <<heap, master_db, heroes, catalogJ, heroesJ, hi, debug_data, resolved_data,
           processed_objs, processed_keys, stack, freed, released, nextAddr,
           rpc, expandCount, log, steps>>

vvars == <<csv_all, csv_rows, rules, vcalled, vcall, vres>>

mvars == <<lang_key_subset, m_block, m_parent, m_done, m_res, familiar_debug_log>>

gvars == <<g_lang_id, g_params, g_done, g_desc>>

\* the variables of the components added to the first three
pvars == <<p_input, p_order, p_rules, p_run, p_i, p_pc, p_ctx, p_skill, p_last, p_out, p_first, p_report>>

xvars == <<gvars, pvars>>

vars == <<rvars, vvars, mvars, xvars>>

-----------------------------------------------------------------------------
(* Calls.  A function f of the source is called as f(..) and has its body in *)
(* def_f; the call evaluates the body with the arguments, whatever the       *)
(* caller, as Invoke(f, <<..>>).                                             *)

RECURSIVE Invoke(_, _)

LowerChar(c) == Invoke("LowerChar", <<c>>)
UpperChar(c) == Invoke("UpperChar", <<c>>)
DictSet(kv, key, val) == Invoke("DictSet", <<kv, key, val>>)
DictUpdate(kv, other) == Invoke("DictUpdate", <<kv, other>>)
Strip(s) == Invoke("Strip", <<s>>)
IsLowerStr(s) == Invoke("IsLowerStr", <<s>>)
FlattenDict(kv, name) == Invoke("FlattenDict", <<kv, name>>)
flatten_json(y) == Invoke("flatten_json", <<y>>)
StripRow(row) == Invoke("StripRow", <<row>>)
AddRule(rs, row) == Invoke("AddRule", <<rs, row>>)
IsIntLiteral(s) == Invoke("IsIntLiteral", <<s>>)
IsFloatLiteral(s) == Invoke("IsFloatLiteral", <<s>>)
DropIgnored(flat_data, ignore_keywords) == Invoke("DropIgnored", <<flat_data, ignore_keywords>>)
ph_keywords(p_holder) == Invoke("ph_keywords", <<p_holder>>)
Candidates(flat_data, kws) == Invoke("Candidates", <<flat_data, kws>>)
Sorted(q) == Invoke("Sorted", <<q>>)
IncKey(flat_data, found_key) == Invoke("IncKey", <<flat_data, found_key>>)
IncVal(flat_data, inc_key) == Invoke("IncVal", <<flat_data, inc_key>>)
Convert(found_key, base_val, inc_val, max_level, is_modifier) == Invoke("Convert", <<found_key, base_val, inc_val, max_level, is_modifier>>)
find_and_calculate_value(p_holder, data_block, max_level, hero_id, rs, is_modifier, ignore_keywords) == Invoke("find_and_calculate_value", <<p_holder, data_block, max_level, hero_id, rs, is_modifier, ignore_keywords>>)
LowerStrOf(d, key) == Invoke("LowerStrOf", <<d, key>>)
StrOf(d, key) == Invoke("StrOf", <<d, key>>)
ConstructedId(data_block, parent_block) == Invoke("ConstructedId", <<data_block, parent_block>>)
LangScore(data_block, seen, lang_key) == Invoke("LangScore", <<data_block, seen, lang_key>>)
potential_matches(data_block, parent_block, lang_keys) == Invoke("potential_matches", <<data_block, parent_block, lang_keys>>)
SortMatches(q) == Invoke("SortMatches", <<q>>)
NoLangId(data_block) == Invoke("NoLangId", <<data_block>>)
DebugEntry(data_block, sorted) == Invoke("DebugEntry", <<data_block, sorted>>)
find_best_lang_id(data_block, lang_keys, debug_log, parent_block) == Invoke("find_best_lang_id", <<data_block, lang_keys, debug_log, parent_block>>)
IntStr(n) == Invoke("IntStr", <<n>>)
TenthsStr(n) == Invoke("TenthsStr", <<n>>)
format_value(value) == Invoke("format_value", <<value>>)
PyStrOf(value) == Invoke("PyStrOf", <<value>>)
FormatParams(lang_params) == Invoke("FormatParams", <<lang_params>>)
generate_description(lang_id, lang_params, lang_db) == Invoke("generate_description", <<lang_id, lang_params, lang_db>>)
NumField(d, key) == Invoke("NumField", <<d, key>>)
IsWordChar(c) == Invoke("IsWordChar", <<c>>)
WordRun(s, i) == Invoke("WordRun", <<s, i>>)
Placeholders(text) == Invoke("Placeholders", <<text>>)
DumpValue(v) == Invoke("DumpValue", <<v>>)
DumpParams(lang_params) == Invoke("DumpParams", <<lang_params>>)
MaxLevelOf(special_data, default) == Invoke("MaxLevelOf", <<special_data, default>>)
DirectLangId(effect_data) == Invoke("DirectLangId", <<effect_data>>)
DirectParams(special_data, effect_data, ctx) == Invoke("DirectParams", <<special_data, effect_data, ctx>>)
parse_direct_effect(special_data, lang_db, ctx) == Invoke("parse_direct_effect", <<special_data, lang_db, ctx>>)
ClearBuffsLangId(special_data) == Invoke("ClearBuffsLangId", <<special_data>>)
parse_clear_buffs(special_data, lang_db) == Invoke("parse_clear_buffs", <<special_data, lang_db>>)
BulletText(text) == Invoke("BulletText", <<text>>)
ExtraLangId(categories, skill_name, extra_lang_ids) == Invoke("ExtraLangId", <<categories, skill_name, extra_lang_ids>>)
ExtraParams(ps, search_context, main_params, env, acc) == Invoke("ExtraParams", <<ps, search_context, main_params, env, acc>>)
find_and_parse_extra_description(categories, skill_name, search_context, main_params, env, ctx) == Invoke("find_and_parse_extra_description", <<categories, skill_name, search_context, main_params, env, ctx>>)
PickLangId(item_id, data_block, lang_keys, parent_block, env, ctx) == Invoke("PickLangId", <<item_id, data_block, lang_keys, parent_block, env, ctx>>)
StatusParams(ps, combined_details, search_context, main_max_level, template_text, env, acc) == Invoke("StatusParams", <<ps, combined_details, search_context, main_max_level, template_text, env, acc>>)
parse_status_effects(status_effects_list, special_data, env, ctx) == Invoke("parse_status_effects", <<status_effects_list, special_data, env, ctx>>)
container_headings(mana_speed) == Invoke("container_headings", <<mana_speed>>)
Heading(mana_speed, i) == Invoke("Heading", <<mana_speed, i>>)
PropertyParams(ps, search_context, main_max_level, is_modifier, env, acc) == Invoke("PropertyParams", <<ps, search_context, main_max_level, is_modifier, env, acc>>)
parse_properties(properties_list, special_data, env, ctx) == Invoke("parse_properties", <<properties_list, special_data, env, ctx>>)
PickFamiliarLangId(data_block, primary_candidates, all_lang_ids, ctx) == Invoke("PickFamiliarLangId", <<data_block, primary_candidates, all_lang_ids, ctx>>)
FamiliarEffectParams(ps, context_block, main_max_level, env, acc) == Invoke("FamiliarEffectParams", <<ps, context_block, main_max_level, env, acc>>)
parse_familiar_effects(familiar_instance, env, ctx) == Invoke("parse_familiar_effects", <<familiar_instance, env, ctx>>)
FamiliarAttack(familiar_instance, main_max_level) == Invoke("FamiliarAttack", <<familiar_instance, main_max_level>>)
FamiliarParams(ps, familiar_instance, main_max_level, env, acc) == Invoke("FamiliarParams", <<ps, familiar_instance, main_max_level, env, acc>>)
parse_familiars(familiars_list, special_data, env, ctx) == Invoke("parse_familiars", <<familiars_list, special_data, env, ctx>>)
ReplaceFirst(s, old, new) == Invoke("ReplaceFirst", <<s, old, new>>)
skill_keywords(skill_data) == Invoke("skill_keywords", <<skill_data>>)
TitleLangId(skill_data, skill_type, title_lang_subset) == Invoke("TitleLangId", <<skill_data, skill_type, title_lang_subset>>)
DescLangId(skill_data, skill_type, title_lang_id, desc_lang_subset, lang_db) == Invoke("DescLangId", <<skill_data, skill_type, title_lang_id, desc_lang_subset, lang_db>>)
PassiveParams(ps, search_context, main_max_level, env, acc) == Invoke("PassiveParams", <<ps, search_context, main_max_level, env, acc>>)
parse_passive_skills(passive_skills_list, env, ctx) == Invoke("parse_passive_skills", <<passive_skills_list, env, ctx>>)
AddLangRule(rs, row) == Invoke("AddLangRule", <<rs, row>>)
LoadLangRules(rs, rows) == Invoke("LoadLangRules", <<rs, rows>>)
LoadHeroRules(rs, rows) == Invoke("LoadHeroRules", <<rs, rows>>)
load_rules_from_csvs(lang_rows, hero_rows) == Invoke("load_rules_from_csvs", <<lang_rows, hero_rows>>)
CheckedKey(key) == Invoke("CheckedKey", <<key>>)
ItemTokens(item) == Invoke("ItemTokens", <<item>>)
HeroItems(hero) == Invoke("HeroItems", <<hero>>)
analyze_unresolved_placeholders(final_hero_data) == Invoke("analyze_unresolved_placeholders", <<final_hero_data>>)

-----------------------------------------------------------------------------
(* Strings *)

UpperChars == "ABCDEFGHIJKLMNOPQRSTUVWXYZ"
LowerChars == "abcdefghijklmnopqrstuvwxyz"

CharAt(s, i) == SubSeq(s, i, i)


\* the letters of each case, and the letter of the other case for each
UpperSet == {CharAt(UpperChars, i) : i \in 1..Len(UpperChars)}
LowerSet == {CharAt(LowerChars, i) : i \in 1..Len(LowerChars)}
ToLower ==
    [c \in UpperSet |->
        CharAt(LowerChars, CHOOSE i \in 1..Len(UpperChars) : CharAt(UpperChars, i) = c)]
ToUpper ==
    [c \in LowerSet |->
        CharAt(UpperChars, CHOOSE i \in 1..Len(LowerChars) : CharAt(LowerChars, i) = c)]

IsUpperChar(c) == c \in UpperSet
IsLowerChar(c) == c \in LowerSet

def_LowerChar(c) == IF c \in UpperSet THEN ToLower[c] ELSE c

def_UpperChar(c) == IF c \in LowerSet THEN ToUpper[c] ELSE c

RECURSIVE Lower(_)
\* str.lower()
Lower(s) ==
    IF Len(s) = 0 THEN ""
    ELSE IF Len(s) = 1 THEN LowerChar(s)
    ELSE Lower(SubSeq(s, 1, Len(s) \div 2)) \o Lower(SubSeq(s, Len(s) \div 2 + 1, Len(s)))

RECURSIVE Upper(_)
\* str.upper()
Upper(s) ==
    IF Len(s) = 0 THEN ""
    ELSE IF Len(s) = 1 THEN UpperChar(s)
    ELSE Upper(SubSeq(s, 1, Len(s) \div 2)) \o Upper(SubSeq(s, Len(s) \div 2 + 1, Len(s)))

\* str.startswith, str.endswith, `sub in s`
EndsWith(s, p) == Len(s) >= Len(p) /\ SubSeq(s, Len(s) - Len(p) + 1, Len(s)) = p
Contains(s, sub) ==
    \E i \in 0..(Len(s) - Len(sub)) : SubSeq(s, i + 1, i + Len(sub)) = sub

RECURSIVE Replace(_, _, _)
\* str.replace(old, new): every non-overlapping occurrence, left to right (old # "")
Replace(s, old, new) ==
    LET found == {i \in 1..(Len(s) - Len(old) + 1) : SubSeq(s, i, i + Len(old) - 1) = old}
    IN IF found = {} THEN s
       ELSE LET first == CHOOSE i \in found : \A j \in found : i <= j
            IN SubSeq(s, 1, first - 1) \o new
               \o Replace(SubSeq(s, first + Len(old), Len(s)), old, new)

RECURSIVE Split(_, _)
\* str.split(sep) for a one-character separator
Split(s, sep) ==
    IF ~Contains(s, sep) THEN <<s>>
    ELSE LET i == CHOOSE j \in 1..Len(s) :
                      /\ CharAt(s, j) = sep
                      /\ \A m \in 1..(j - 1) : CharAt(s, m) # sep
         IN <<SubSeq(s, 1, i - 1)>> \o Split(SubSeq(s, i + 1, Len(s)), sep)

SeqRange(q) == {q[i] : i \in 1..Len(q)}

-----------------------------------------------------------------------------
(* JSON values *)

JStr(s) == [t |-> "str", s |-> s]
JNum(n) == [t |-> "num", n |-> n]
JBool(b) == [t |-> "bool", b |-> b]
JDict(kv) == [t |-> "dict", kv |-> kv]
JList(el) == [t |-> "list", el |-> el]
Ref(a) == [t |-> "ref", a |-> a]
KV(k, v) == [k |-> k, v |-> v]

IsContainer(j) == j.t \in {"dict", "list"}

\* the values held by a container, in order
Items(j) == IF j.t = "dict" THEN [i \in 1..Len(j.kv) |-> j.kv[i].v] ELSE j.el

HasKey(kv, key) == \E i \in 1..Len(kv) : kv[i].k = key
\* dict[key] for a key the dict has
Get(kv, key) == kv[CHOOSE i \in 1..Len(kv) : kv[i].k = key].v
\* dict[key] = val: an existing key keeps its place, a new key goes last
def_DictSet(kv, key, val) ==
    IF HasKey(kv, key)
    THEN [i \in 1..Len(kv) |-> IF kv[i].k = key THEN KV(key, val) ELSE kv[i]]
    ELSE Append(kv, KV(key, val))

\* dict.update(other)
def_DictUpdate(kv, other) ==
    IF other = <<>> THEN kv
    ELSE DictUpdate(DictSet(kv, Head(other).k, Head(other).v), Tail(other))

RECURSIVE CountContainers(_), CountContainersSeq(_)
\* the dict and list objects json.loads makes for a JSON value
CountContainers(j) ==
    IF IsContainer(j) THEN 1 + CountContainersSeq(Items(j)) ELSE 0
CountContainersSeq(q) ==
    IF q = <<>> THEN 0 ELSE CountContainers(Head(q)) + CountContainersSeq(Tail(q))

RECURSIVE Work(_), WorkSeq(_)
\* one call and one loop iteration per item, for every container of a JSON value
Work(j) ==
    IF IsContainer(j) THEN 1 + Len(Items(j)) + WorkSeq(Items(j)) ELSE 0
WorkSeq(q) ==
    IF q = <<>> THEN 0 ELSE Work(Head(q)) + WorkSeq(Tail(q))

RECURSIVE Store(_, _, _), StoreSeq(_, _, _)
\* json.loads: build the objects of JSON value j in heap h, taking the addresses
\* of the new containers from addrs in pre-order
Store(h, addrs, j) ==
    IF IsContainer(j)
    THEN LET a == Head(addrs)
             r == StoreSeq(h, Tail(addrs), Items(j))
             obj == IF j.t = "dict"
                    THEN JDict([i \in 1..Len(j.kv) |-> KV(j.kv[i].k, r.vs[i])])
                    ELSE JList(r.vs)
         IN [h |-> (a :> obj) @@ r.h, addrs |-> r.addrs, v |-> Ref(a)]
    ELSE [h |-> h, addrs |-> addrs, v |-> j]
StoreSeq(h, addrs, q) ==
    IF q = <<>> THEN [h |-> h, addrs |-> addrs, vs |-> <<>>]
    ELSE LET r1 == Store(h, addrs, Head(q))
             r2 == StoreSeq(r1.h, r1.addrs, Tail(q))
         IN [h |-> r2.h, addrs |-> r2.addrs, vs |-> <<r1.v>> \o r2.vs]

RECURSIVE Load(_, _)
\* json.dumps: the JSON value of what v holds in heap h
Load(h, v) ==
    IF v.t = "ref"
    THEN LET o == h[v.a]
         IN IF o.t = "dict"
            THEN JDict([i \in 1..Len(o.kv) |-> KV(o.kv[i].k, Load(h, o.kv[i].v))])
            ELSE JList([i \in 1..Len(o.el) |-> Load(h, o.el[i])])
    ELSE v

RECURSIVE Reach(_, _)
\* the addresses of the objects reachable from value v in heap h
Reach(h, v) ==
    IF v.t = "ref"
    THEN LET o == h[v.a]
             vs == Items(o)
         IN {v.a} \cup UNION {Reach(h, vs[i]) : i \in 1..Len(vs)}
    ELSE {}

RECURSIVE PathCount(_, _, _)
\* the number of paths from value v to address a in heap h
PathCount(h, v, a) ==
    IF v.t = "ref"
    THEN LET vs == Items(h[v.a])
             F[i \in 0..Len(vs)] == IF i = 0 THEN 0 ELSE F[i - 1] + PathCount(h, vs[i], a)
         IN (IF v.a = a THEN 1 ELSE 0) + F[Len(vs)]
    ELSE 0

-----------------------------------------------------------------------------
(* Python values returned by the Value Resolver and the Template Matcher *)

\* None, an int, a float (held in tenths: every float met here is a number of
\* tenths) and a str
PyNone == [k |-> "none", n |-> 0, s |-> ""]
PyInt(n) == [k |-> "int", n |-> n, s |-> ""]
PyFloat(tenths) == [k |-> "float", n |-> tenths, s |-> ""]
PyStr(s) == [k |-> "str", n |-> 0, s |-> s]

Digits == "0123456789"
IsDigit(c) == \E i \in 1..Len(Digits) : CharAt(Digits, i) = c
DigitVal(c) == (CHOOSE i \in 1..Len(Digits) : CharAt(Digits, i) = c) - 1
AllDigits(s) == Len(s) > 0 /\ \A i \in 1..Len(s) : IsDigit(CharAt(s, i))

RECURSIVE NatOf(_)
NatOf(s) ==
    IF Len(s) = 0 THEN 0
    ELSE 10 * NatOf(SubSeq(s, 1, Len(s) - 1)) + DigitVal(CharAt(s, Len(s)))

RECURSIVE ToStr(_)
\* str(i) for i >= 0
ToStr(n) ==
    IF n < 10 THEN CharAt(Digits, n + 1)
    ELSE ToStr(n \div 10) \o CharAt(Digits, (n % 10) + 1)

\* str.strip(), the blank being the only whitespace of the rows generated
def_Strip(s) ==
    IF Len(s) > 0 /\ CharAt(s, 1) = " " THEN Strip(SubSeq(s, 2, Len(s)))
    ELSE IF Len(s) > 0 /\ CharAt(s, Len(s)) = " " THEN Strip(SubSeq(s, 1, Len(s) - 1))
    ELSE s

\* str.islower(): some cased character, and none of them upper-case
def_IsLowerStr(s) ==
    /\ \E i \in 1..Len(s) : IsLowerChar(CharAt(s, i))
    /\ \A i \in 1..Len(s) : ~IsUpperChar(CharAt(s, i))

-----------------------------------------------------------------------------
(* Value Resolver: flatten_json *)

\* the dict that a run of assignments d[k] = v builds from an empty one: a key
\* stands where it was first assigned and holds what it was last assigned
Assigned(q) ==
    LET firsts == {i \in 1..Len(q) : \A j \in 1..(i - 1) : q[j].k # q[i].k}
    IN [n \in 1..Cardinality(firsts) |->
          LET i == CHOOSE i \in firsts : Cardinality({m \in firsts : m < i}) = n - 1
              last == CHOOSE j \in i..Len(q) :
                          q[j].k = q[i].k /\ \A m \in (j + 1)..Len(q) : q[m].k # q[i].k
          IN KV(q[i].k, q[last].v)]

RECURSIVE Flatten(_, _), FlattenList(_, _, _)
\* flatten(x, name): the assignments out[name[:-1]] = leaf that it makes, in order,
\* the keys joined with "_"
Flatten(x, name) ==
    IF x.t = "dict" THEN FlattenDict(x.kv, name)
    ELSE IF x.t = "list" THEN FlattenList(x.el, name, 0)
    ELSE <<KV(SubSeq(name, 1, Len(name) - 1), x)>>
\* for a in x: flatten(x[a], name + a + '_')
def_FlattenDict(kv, name) ==
    IF kv = <<>> THEN <<>>
    ELSE IF Len(kv) = 1 THEN Flatten(kv[1].v, name \o kv[1].k \o "_")
    ELSE FlattenDict(SubSeq(kv, 1, Len(kv) \div 2), name)
         \o FlattenDict(SubSeq(kv, Len(kv) \div 2 + 1, Len(kv)), name)
\* for i, a in enumerate(x): flatten(a, name + str(i) + '_'), el being x[i:]
FlattenList(el, name, i) ==
    IF el = <<>> THEN <<>>
    ELSE IF Len(el) = 1 THEN Flatten(el[1], name \o ToStr(i) \o "_")
    ELSE FlattenList(SubSeq(el, 1, Len(el) \div 2), name, i)
         \o FlattenList(SubSeq(el, Len(el) \div 2 + 1, Len(el)), name, i + Len(el) \div 2)

def_flatten_json(y) == Assigned(Flatten(y, ""))

\* isinstance(value, (int, float)): a bool is an int
IsNumber(v) == v.t \in {"num", "bool"}
NumOf(v) == IF v.t = "num" THEN v.n ELSE IF v.b THEN 1 ELSE 0

-----------------------------------------------------------------------------
(* Value Resolver: the rules loaded from exception_hero_rules.csv *)

\* a row of the file: csv.DictReader gives every column as a string
Row(hero_id, placeholder, calc, value, key) ==
    [hero_id |-> hero_id, placeholder |-> placeholder, calc |-> calc,
     value |-> value, key |-> key]

\* rule = {k: v.strip() for k, v in row.items()}
def_StripRow(row) ==
    Row(Strip(row.hero_id), Strip(row.placeholder), Strip(row.calc),
        Strip(row.value), Strip(row.key))

\* d[key] = val for a dict held as a function
FunSet(f, key, val) == [x \in (DOMAIN f) \cup {key} |-> IF x = key THEN val ELSE f[x]]

\* lines 98-103: a row with a hero id is a specific rule, any other a common rule
def_AddRule(rs, row) ==
    LET hero_id == Strip(row.hero_id)
        placeholder == Upper(Strip(row.placeholder))
        rule == StripRow(row)
    IN IF placeholder = "" THEN rs
       ELSE IF hero_id # ""
       THEN [rs EXCEPT !.specific =
               FunSet(@, hero_id,
                      FunSet(IF hero_id \in DOMAIN @ THEN @[hero_id] ELSE <<>>,
                             placeholder, rule))]
       ELSE [rs EXCEPT !.common = FunSet(@, placeholder, rule)]

\* the common rule is looked up first
RuleForCommonFirst(rs, hero_id, p_holder_upper) ==
    IF p_holder_upper \in DOMAIN rs.common
    THEN <<rs.common[p_holder_upper]>>
    ELSE IF hero_id \in DOMAIN rs.specific /\ p_holder_upper \in DOMAIN rs.specific[hero_id]
         THEN <<rs.specific[hero_id][p_holder_upper]>>
         ELSE <<>>

\* lines 145-146: the rule for a placeholder, <<>> for none
RuleFor(rs, hero_id, p_holder_upper) ==
    IF hero_id \in DOMAIN rs.specific /\ p_holder_upper \in DOMAIN rs.specific[hero_id]
    THEN <<rs.specific[hero_id][p_holder_upper]>>
    ELSE IF p_holder_upper \in DOMAIN rs.common
         THEN <<rs.common[p_holder_upper]>>
         ELSE <<>>

-----------------------------------------------------------------------------
(* Value Resolver: find_and_calculate_value *)

Result(value, src) == [value |-> value, src |-> src]

\* the sign and the digits of a literal
Unsigned(s) ==
    IF Len(s) > 0 /\ (CharAt(s, 1) = "+" \/ CharAt(s, 1) = "-")
    THEN SubSeq(s, 2, Len(s)) ELSE s
SignOf(s) == IF Len(s) > 0 /\ CharAt(s, 1) = "-" THEN 0 - 1 ELSE 1
\* the strings int() takes, and those float() takes, among the values generated:
\* digits, and digits with one decimal
def_IsIntLiteral(s) == AllDigits(Unsigned(s))
def_IsFloatLiteral(s) ==
    LET u == Unsigned(s)
    IN /\ Len(u) >= 3 /\ CharAt(u, Len(u) - 1) = "."
       /\ AllDigits(SubSeq(u, 1, Len(u) - 2)) /\ IsDigit(CharAt(u, Len(u)))

\* lines 148-153: int(value_str), else float(value_str), else value_str
FixedRule(value_str) ==
    LET u == Unsigned(value_str)
    IN IF IsIntLiteral(value_str) THEN Result(PyInt(SignOf(value_str) * NatOf(u)), PyStr("Fixed Rule"))
       ELSE IF IsFloatLiteral(value_str)
       THEN Result(PyFloat(SignOf(value_str)
                           * (10 * NatOf(SubSeq(u, 1, Len(u) - 2)) + DigitVal(CharAt(u, Len(u))))),
                   PyStr("Fixed Rule"))
       ELSE Result(PyStr(value_str), PyStr("Fixed Rule"))

\* the first key that ends with key_to_find stands for all of them
MatchingKeysFirst(flat_data, key_to_find) ==
    LET all == SelectSeq(flat_data, LAMBDA e : EndsWith(e.k, key_to_find))
    IN IF all = <<>> THEN <<>> ELSE <<Head(all)>>

\* line 156: [k for k in flat_data if k.endswith(key_to_find)]
MatchingKeys(flat_data, key_to_find) ==
    SelectSeq(flat_data, LAMBDA e : EndsWith(e.k, key_to_find))

\* lines 154-162: the one field whose flattened key ends with the rule's key
KeyRule(key_to_find, data_block) ==
    LET flat_data == flatten_json(data_block)
        matching_keys == MatchingKeys(flat_data, key_to_find)
        found_key == matching_keys[1].k
        value == matching_keys[1].v
        missing == Result(PyNone, PyStr("Exception rule key '" \o key_to_find
                                        \o "' not found or ambiguous"))
    IN IF key_to_find = "" THEN missing
       ELSE IF Len(matching_keys) = 1 /\ IsNumber(value)
       THEN IF Contains(Lower(found_key), "permil")
            THEN Result(PyFloat(NumOf(value)), PyStr("Exception Rule: " \o found_key))
            ELSE Result(PyInt(NumOf(value)), PyStr("Exception Rule: " \o found_key))
       ELSE missing

\* lines 165-167: the leaves whose lower-cased key holds an ignored keyword are removed
def_DropIgnored(flat_data, ignore_keywords) ==
    SelectSeq(flat_data,
              LAMBDA e : ~\E i \in 1..Len(ignore_keywords) :
                              Contains(Lower(e.k), ignore_keywords[i]))

\* no fragment is found: the whole placeholder is then the one keyword
UpperRunsNone(s) == <<>>

RECURSIVE UpperRuns(_)
\* re.findall('[A-Z][^A-Z]*', s)
UpperRuns(s) ==
    IF \A i \in 1..Len(s) : ~IsUpperChar(CharAt(s, i)) THEN <<>>
    ELSE LET b == CHOOSE i \in 1..Len(s) :
                      /\ IsUpperChar(CharAt(s, i))
                      /\ \A j \in 1..(i - 1) : ~IsUpperChar(CharAt(s, j))
             after == {i \in (b + 1)..Len(s) : IsUpperChar(CharAt(s, i))}
             e == IF after = {} THEN Len(s)
                  ELSE (CHOOSE i \in after : \A j \in after : i <= j) - 1
         IN <<SubSeq(s, b, e)>> \o UpperRuns(SubSeq(s, e + 1, Len(s)))

\* line 168: the lower-cased fragments, or the whole placeholder lower-cased
def_ph_keywords(p_holder) ==
    LET runs == UpperRuns(p_holder)
    IN IF runs = <<>> THEN <<Lower(p_holder)>>
       ELSE [i \in 1..Len(runs) |-> Lower(runs[i])]

\* line 173: sum(1 for kw in ph_keywords if kw in key_lower)
MatchedKeywords(kws, key_lower) ==
    Cardinality({i \in 1..Len(kws) : Contains(key_lower, kws[i])})

\* every matched fragment counts one
KeyScoreUnit(kws, key) ==
    LET key_lower == Lower(key)
    IN MatchedKeywords(kws, key_lower)
       + (IF Contains(key_lower, "power") \/ Contains(key_lower, "modifier") THEN 5 ELSE 0)
       + (IF Contains(key_lower, "permil") THEN 3 ELSE 0)

\* lines 175-177
KeyScore(kws, key) ==
    LET key_lower == Lower(key)
    IN MatchedKeywords(kws, key_lower) * 10
       + (IF Contains(key_lower, "power") \/ Contains(key_lower, "modifier") THEN 5 ELSE 0)
       + (IF Contains(key_lower, "permil") THEN 3 ELSE 0)

\* lines 169-178: the numeric leaves that match a fragment, with their scores
def_Candidates(flat_data, kws) ==
    LET hits == SelectSeq(flat_data,
                          LAMBDA e : IsNumber(e.v) /\ MatchedKeywords(kws, Lower(e.k)) > 0)
    IN [i \in 1..Len(hits) |-> [key |-> hits[i].k, score |-> KeyScore(kws, hits[i].k)]]

\* the sort key (-score, len(key)) of lines 180 and 245
SortKeyLess(x, y) ==
    x.score > y.score \/ (x.score = y.score /\ Len(x.key) < Len(y.key))

RECURSIVE InsertSorted(_, _)
\* x goes behind every element that does not come after it: the sort is stable
InsertSorted(q, x) ==
    IF q = <<>> THEN <<x>>
    ELSE IF SortKeyLess(x, Head(q)) THEN <<x>> \o q
         ELSE <<Head(q)>> \o InsertSorted(Tail(q), x)

\* sorted(q, key=lambda x: (-x['score'], len(x['key'])))
def_Sorted(q) == IF q = <<>> THEN <<>> ELSE InsertSorted(Sorted(SubSeq(q, 1, Len(q) - 1)), q[Len(q)])

RECURSIVE IncrementIn(_, _, _)
\* the characters from..to of s, "IncrementPerLevel" put behind each of them that is
\* a lower-case letter before an upper-case one: no two such pairs overlap
IncrementIn(s, from, to) ==
    IF from > to THEN ""
    ELSE IF from = to
    THEN IF from < Len(s) /\ IsLowerChar(CharAt(s, from)) /\ IsUpperChar(CharAt(s, from + 1))
         THEN CharAt(s, from) \o "IncrementPerLevel" ELSE CharAt(s, from)
    ELSE IncrementIn(s, from, (from + to) \div 2) \o IncrementIn(s, (from + to) \div 2 + 1, to)

\* re.sub(r'([a-z])([A-Z])', r'\1IncrementPerLevel\2', s)
SubIncrement(s) == IncrementIn(s, 1, Len(s))

\* lines 182-192: the key of the increment leaf, <<>> for None
def_IncKey(flat_data, found_key) ==
    LET first == Replace(found_key, "PerMil", "PerLevelPerMil")
        second == Replace(found_key, "PerMil", "IncrementPerLevelPerMil")
        third == IF IsLowerStr(found_key) THEN found_key \o "incrementperlevel"
                 ELSE SubIncrement(found_key)
    IN IF EndsWith(found_key, "PerMil") /\ HasKey(flat_data, first) THEN <<first>>
       ELSE IF HasKey(flat_data, second) THEN <<second>>
       ELSE IF HasKey(flat_data, third) THEN <<third>>
       ELSE <<>>

\* lines 193-194: flat_data.get(inc_key, 0), and 0 for a value that is no number
def_IncVal(flat_data, inc_key) ==
    IF inc_key # <<>> /\ IsNumber(Get(flat_data, inc_key[1]))
    THEN NumOf(Get(flat_data, inc_key[1])) ELSE 0

\* lines 195-199: per-level scaling and the conversion of units
def_Convert(found_key, base_val, inc_val, max_level, is_modifier) ==
    LET calculated_val == base_val + inc_val * (max_level - 1)
    IN IF is_modifier \/ Contains(Lower(found_key), "modifier")
       THEN PyFloat((base_val - 1000) + (inc_val * (max_level - 1)))
       ELSE IF Contains(Lower(found_key), "permil") THEN PyFloat(calculated_val)
       ELSE PyInt(calculated_val)

\* lines 163-199: the search over the flattened numeric leaves
Heuristic(p_holder, data_block, max_level, is_modifier, ignore_keywords) ==
    LET flat_data == DropIgnored(flatten_json(data_block), ignore_keywords)
        candidates == Candidates(flat_data, ph_keywords(p_holder))
        found_key == Sorted(candidates)[1].key
        base_val == NumOf(Get(flat_data, found_key))
        inc_val == IncVal(flat_data, IncKey(flat_data, found_key))
    IN IF data_block.t # "dict" \/ candidates = <<>> THEN Result(PyNone, PyNone)
       ELSE Result(Convert(found_key, base_val, inc_val, max_level, is_modifier),
                   PyStr(found_key))

\* lines 143-199
def_find_and_calculate_value(p_holder, data_block, max_level, hero_id, rs, is_modifier, ignore_keywords) ==
    LET rule == RuleFor(rs, hero_id, Upper(p_holder))
    IN IF rule # <<>>
       THEN IF rule[1].calc = "fixed" THEN FixedRule(rule[1].value)
            ELSE KeyRule(rule[1].key, data_block)
       ELSE Heuristic(p_holder, data_block, max_level, is_modifier, ignore_keywords)

-----------------------------------------------------------------------------
(* Template Matcher: find_best_lang_id *)

\* parent_block=None
JNull == [t |-> "null"]

\* d.get(key, '') lower-cased when it is a str, '' otherwise
def_LowerStrOf(d, key) ==
    IF d.t = "dict" /\ HasKey(d.kv, key) /\ Get(d.kv, key).t = "str"
    THEN Lower(Get(d.kv, key).s) ELSE ""

\* d.get(key) when it is a str, '' for a missing key and for any other value
def_StrOf(d, key) ==
    IF d.t = "dict" /\ HasKey(d.kv, key) /\ Get(d.kv, key).t = "str"
    THEN Get(d.kv, key).s ELSE ""

\* line 217-218: buff_map.get(data_block.get('buff')), "" for None
buff_map(buff) ==
    IF buff \in {"MinorDebuff", "MinorBuff"} THEN "minor"
    ELSE IF buff \in {"MajorDebuff", "MajorBuff"} THEN "major"
    ELSE IF buff \in {"PermanentDebuff", "PermanentBuff"} THEN "permanent"
    ELSE ""

\* lines 220-221: (parent_block or data_block)
TargetSource(data_block, parent_block) ==
    IF parent_block.t = "dict" /\ parent_block.kv # <<>> THEN parent_block ELSE data_block

\* lines 216-223: the id built for a status effect, <<>> when a part is missing
def_ConstructedId(data_block, parent_block) ==
    LET intensity == buff_map(StrOf(data_block, "buff"))
        effect_name == LowerStrOf(data_block, "statusEffect")
        target == LowerStrOf(TargetSource(data_block, parent_block), "statusTargetType")
        side == LowerStrOf(TargetSource(data_block, parent_block), "sideAffected")
    IN IF /\ HasKey(data_block.kv, "statusEffect")
          /\ intensity # "" /\ effect_name # "" /\ target # "" /\ side # ""
       THEN <<"specials.v2.statuseffect." \o intensity \o "." \o effect_name \o "."
              \o target \o "." \o side>>
       ELSE <<>>

\* max_depth=2
max_depth == 2

list_keys_to_scan ==
    <<"statusEffects", "effects", "statusEffectsToAdd", "statusEffectCollections",
      "properties">>

RECURSIVE collect_keywords_recursively(_, _), CollectItems(_, _), CollectLists(_, _, _)
\* lines 201-213: the lower-cased string values with the depth they stand at
collect_keywords_recursively(data_block, depth) ==
    IF depth > max_depth THEN <<>>
    ELSE IF data_block.t = "dict"
    THEN LET strs == SelectSeq(data_block.kv, LAMBDA e : e.v.t = "str")
         IN [i \in 1..Len(strs) |-> <<Lower(strs[i].v.s), depth>>]
            \o CollectLists(data_block.kv, list_keys_to_scan, depth)
    ELSE IF data_block.t = "list" THEN CollectItems(data_block.el, depth + 1)
    ELSE <<>>
\* the items of one list, each at the given depth
CollectItems(el, depth) ==
    IF el = <<>> THEN <<>>
    ELSE collect_keywords_recursively(Head(el), depth) \o CollectItems(Tail(el), depth)
\* lines 208-210: the lists under the keys of list_keys_to_scan, in that order
CollectLists(kv, keys, depth) ==
    IF keys = <<>> THEN <<>>
    ELSE (IF HasKey(kv, Head(keys)) /\ Get(kv, Head(keys)).t = "list"
          THEN CollectItems(Get(kv, Head(keys)).el, depth + 1) ELSE <<>>)
         \o CollectLists(kv, Tail(keys), depth)

\* the string values of the parent block are keywords of depth 1
seen_keywordsOfParent(data_block, parent_block) ==
    LET contextual_block == JDict(DictSet(data_block.kv, "parent", parent_block))
        all == collect_keywords_recursively(contextual_block, 0)
               \o collect_keywords_recursively(parent_block, 1)
    IN {<<all[i][1], all[i][2]>> : i \in {j \in 1..Len(all) :
            \A m \in 1..Len(all) : all[m][1] = all[j][1] => all[j][2] <= all[m][2]}}

\* lines 225-229: every keyword with the least depth it was seen at
seen_keywords(data_block, parent_block) ==
    LET contextual_block == JDict(DictSet(data_block.kv, "parent", parent_block))
        all == collect_keywords_recursively(contextual_block, 0)
    IN {<<all[i][1], all[i][2]>> : i \in {j \in 1..Len(all) :
            \A m \in 1..Len(all) : all[m][1] = all[j][1] => all[j][2] <= all[m][2]}}

RECURSIVE Pow2(_)
Pow2(n) == IF n = 0 THEN 1 ELSE 2 * Pow2(n - 1)

RECURSIVE KeywordScore(_, _)
\* lines 233-234: 100 / (2 ** depth) for every keyword that is a part of the id
KeywordScore(seen, parts) ==
    LET hits == {e \in seen : e[1] \in parts}
    IN IF hits = {} THEN 0
       ELSE LET depth == CHOOSE d \in {e[2] : e \in hits} : \A e \in hits : d <= e[2]
                here == {e \in hits : e[2] = depth}
            IN Cardinality(here) * (100 \div Pow2(depth)) + KeywordScore(hits \ here, parts)

\* line 240: any(isinstance(v, (int, float)) and v < 0 for v in data_block.values())
HasNegative(data_block) ==
    \E i \in 1..Len(data_block.kv) :
        IsNumber(data_block.kv[i].v) /\ NumOf(data_block.kv[i].v) < 0

\* lines 232-240: the score of one candidate id
def_LangScore(data_block, seen, lang_key) ==
    LET parts == SeqRange(Split(Lower(lang_key), "."))
        familiar_type == LowerStrOf(data_block, "familiarType")
    IN KeywordScore(seen, parts)
       + (IF Contains(familiar_type, "minion") /\ "allies" \in parts THEN 20 ELSE 0)
       + (IF Contains(familiar_type, "parasite") /\ "enemies" \in parts THEN 20 ELSE 0)
       + (IF "fixedpower" \in parts /\ (\E e \in seen : e[1] = "hasfixedpower") THEN 3 ELSE 0)
       + (IF "decrement" \in parts /\ HasNegative(data_block) THEN 2 ELSE 0)

\* lines 230-241: the candidates that score more than 0, in the order of the list
def_potential_matches(data_block, parent_block, lang_keys) ==
    LET seen == seen_keywords(data_block, parent_block)
        scored == [i \in 1..Len(lang_keys) |->
                     [key |-> lang_keys[i], score |-> LangScore(data_block, seen, lang_keys[i])]]
    IN SelectSeq(scored, LAMBDA m : m.score > 0)

\* the score alone orders the matches
MatchLessByScore(x, y) == x.score > y.score

\* line 245: key=lambda x: (-x['score'], len(x['key']))
MatchLess(x, y) ==
    x.score > y.score \/ (x.score = y.score /\ Len(x.key) < Len(y.key))

RECURSIVE InsertMatch(_, _)
InsertMatch(q, x) ==
    IF q = <<>> THEN <<x>>
    ELSE IF MatchLess(x, Head(q)) THEN <<x>> \o q
         ELSE <<Head(q)>> \o InsertMatch(Tail(q), x)

\* potential_matches.sort(..): a stable sort
def_SortMatches(q) ==
    IF q = <<>> THEN <<>>
    ELSE InsertMatch(SortMatches(SubSeq(q, 1, Len(q) - 1)), q[Len(q)])

\* lines 243-244
def_NoLangId(data_block) ==
    LET primary_keyword ==
            IF StrOf(data_block, "propertyType") # "" THEN StrOf(data_block, "propertyType")
            ELSE IF StrOf(data_block, "statusEffect") # "" THEN StrOf(data_block, "statusEffect")
            ELSE IF StrOf(data_block, "familiarType") # "" THEN StrOf(data_block, "familiarType")
            ELSE "N/A"
        skill == IF HasKey(data_block.kv, "id") THEN StrOf(data_block, "id") ELSE "UNKNOWN"
    IN "Could not find lang_id for skill '" \o skill \o "' (type: " \o primary_keyword \o ")"

\* f"{m['score']:.2f}" of a whole score
Score2f(n) == ToStr(n) \o ".00"

\* lines 246-248: the entry of the familiar debug log, the five best matches in it
def_DebugEntry(data_block, sorted) ==
    LET top == SubSeq(sorted, 1, IF Len(sorted) < 5 THEN Len(sorted) ELSE 5)
    IN [familiar_id |-> StrOf(data_block, "id"), familiar_instance |-> data_block,
        top_candidates |-> [i \in 1..Len(top) |->
                              [score |-> Score2f(top[i].score), key |-> top[i].key]]]

MatchResult(id, warning) == [id |-> id, warning |-> warning]

\* lines 215-249: the result, and the familiar debug log after the call
def_find_best_lang_id(data_block, lang_keys, debug_log, parent_block) ==
    LET constructed_id == ConstructedId(data_block, parent_block)
        sorted == SortMatches(potential_matches(data_block, parent_block, lang_keys))
    IN IF constructed_id # <<>> /\ constructed_id[1] \in SeqRange(lang_keys)
       THEN [res |-> MatchResult(PyStr(constructed_id[1]), PyNone), log |-> debug_log]
       ELSE IF sorted = <<>>
       THEN [res |-> MatchResult(PyNone, PyStr(NoLangId(data_block))), log |-> debug_log]
       ELSE [res |-> MatchResult(PyStr(sorted[1].key), PyNone),
             log |-> IF StrOf(data_block, "familiarType") # ""
                     THEN Append(debug_log, DebugEntry(data_block, sorted))
                     ELSE debug_log]

-----------------------------------------------------------------------------
(* The components are checked one at a time: the others stand still *)

VCall(p_holder, data_block, max_level, hero_id, is_modifier, ignore_keywords) ==
    [p_holder |-> p_holder, data_block |-> data_block, max_level |-> max_level,
     hero_id |-> hero_id, is_modifier |-> is_modifier,
     ignore_keywords |-> ignore_keywords]

\* lines 49-52
NoRules == [specific |-> <<>>, common |-> <<>>]

\* the Value Resolver is not in use
VOff ==
    /\ csv_all = <<>> /\ csv_rows = <<>> /\ rules = NoRules
    /\ vcalled = FALSE
    /\ vcall = VCall("", JDict(<<>>), 1, "", FALSE, <<>>)
    /\ vres = Result(PyNone, PyNone)

\* the Template Matcher is not in use
MOff ==
    /\ lang_key_subset = <<>> /\ m_block = JDict(<<>>) /\ m_parent = JNull
    /\ m_done = FALSE
    /\ m_res = MatchResult(PyNone, PyNone)
    /\ familiar_debug_log = <<>>

\* the Reference Resolver is not in use
ROff ==
    /\ heap = <<>> /\ master_db = <<>> /\ heroes = <<>>
    /\ catalogJ = <<>> /\ heroesJ = <<>>
    /\ hi = 1 /\ debug_data = <<>> /\ resolved_data = 0
    /\ processed_objs = {} /\ processed_keys = {}
    /\ stack = <<>> /\ freed = {} /\ released = {}
    /\ nextAddr = 1 /\ rpc = "off" /\ expandCount = <<>> /\ log = <<>> /\ steps = 0

\* the texts of a description
Texts(en, ja) == [en |-> en, ja |-> ja]

\* no description is being generated
GOff ==
    /\ g_lang_id = "" /\ g_params = <<>> /\ g_done = FALSE /\ g_desc = Texts("", "")

\* the components added to the first three are not in use
\* str.startswith
StartsWith(s, p) == Len(s) >= Len(p) /\ SubSeq(s, 1, Len(p)) = p

\* the ids of lang_db, in its order: what "for k in lang_db" visits
LangKeys(lang_db) == [i \in 1..Len(lang_db) |-> lang_db[i].k]

\* the parsers dict as main builds it (lines 399-407) for a localization table: no
\* main_max_level (<<>>) and no hero_mana_speed_id (None) yet; the two logs and the
\* two warning collections are created by the first call of phase 2
Parsers(lang_db) ==
    [main_max_level |-> <<>>, hero_mana_speed_id |-> [k |-> "none", n |-> 0, s |-> ""],
     familiar_debug_log |-> <<>>, familiar_parameter_log |-> <<>>,
     warnings_list |-> <<>>, unique_warnings_set |-> {},
     se_lang_subset |-> SelectSeq(LangKeys(lang_db),
                                  LAMBDA k : StartsWith(k, "specials.v2.statuseffect.")),
     prop_lang_subset |-> SelectSeq(LangKeys(lang_db),
                                    LAMBDA k : StartsWith(k, "specials.v2.property.")),
     extra_lang_ids |-> SelectSeq(LangKeys(lang_db), LAMBDA k : Contains(k, ".extra"))]

\* phase 2 is not running
POff ==
    /\ p_input = <<>> /\ p_rules = <<>>
    /\ p_order = <<>> /\ p_run = 0 /\ p_i = 0 /\ p_pc = "off" /\ p_ctx = Parsers(<<>>)
    /\ p_skill = <<>> /\ p_last = [items |-> <<>>, warnings |-> <<>>]
    /\ p_out = <<>> /\ p_first = <<>> /\ p_report = <<>>

XOff == GOff /\ POff


-----------------------------------------------------------------------------
(* Reference Resolver: the inputs *)

\* the longest list of references a generated hero record holds
MaxList == 1

CatalogKeys == {"A", "B"}

\* list elements: a mapping with an id, and one with a foreign key of its own too
IdMap(t) == JDict(<<KV("id", JStr(t))>>)
IdMapY(t, y) == JDict(<<KV("id", JStr(t)), KV("yId", JStr(y))>>)

\* the list elements of a generated hero record
Elems == {JStr("A"), IdMap("B"), IdMapY("A", "B"), IdMapY("Z", "B")}

ListsUpTo(n) == UNION {[1..m -> Elems] : m \in 0..n}

OptField(name, t) == IF t = "" THEN <<>> ELSE <<KV(name, JStr(t))>>
OptList(name, l) == IF l = <<>> THEN <<>> ELSE <<KV(name, JList(l))>>

\* a catalog entry: {cs['id']: cs ...} keys every entry by its own id field
Entry(key, fld, lst) ==
    JDict(<<KV("id", JStr(key))>> \o OptField("xId", fld) \o OptList("effects", lst))

\* a raw hero record
Hero(id, special, lst, bonus) ==
    JDict(<<KV("id", JStr(id))>> \o OptField("specialId", special)
          \o OptList("properties", lst) \o OptField("costumeBonusesId", bonus))

\* the entries generated for a key: no reference, a reference to itself or to the
\* other key in a *Id field, and a list naming the other key
EntryShapes(key, other) ==
    {Entry(key, f, l) : f \in {"", key, other}, l \in {<<>>, <<IdMap(other)>>}}

\* "Z" is an identifier that is no catalog key
HeroShapes(id) ==
    {Hero(id, s, l, b) : s \in {"A", "Z"}, l \in ListsUpTo(MaxList), b \in {"", "B"}}

\* the hero integrated after the generated one
SecondHero == Hero("h2", "A", <<IdMap("B")>>, "")

\* the addresses 1..n, in order
FreshAddrs(from, n) == [i \in 1..n |-> from + i - 1]

-----------------------------------------------------------------------------
(* Reference Resolver: _resolve_recursive as a machine with an explicit call stack *)

\* ID_KEYS_FOR_LISTS
ID_KEYS_FOR_LISTS ==
    {"properties", "statusEffects", "statusEffectsPerHit", "summonedFamiliars",
     "effects", "passiveSkills", "costumeBonusPassiveSkillIds", "statusEffectsToAdd",
     "statusEffectCollections"}

\* key.lower().endswith('id')
EndsWithId(key) == EndsWith(Lower(key), "id")

\* a frame of _resolve_recursive(current_data, ..): a is current_data, items the
\* list(current_data.items()) of a dict, i the loop index, nd the local new_data
\* (0: unset), dead whether new_data is referenced by this local alone, pc "loop"
\* before an iteration and "attach" after the recursive call on new_data
NewFrame(h, a) ==
    [a |-> a, items |-> IF h[a].t = "dict" THEN h[a].kv ELSE <<>>,
     i |-> 1, nd |-> 0, dead |-> FALSE, pc |-> "loop"]

\* _resolve_recursive(a, ..) from a caller: returns at once for a processed identity
Call(h, stk, po, a) ==
    IF a \in po THEN [stack |-> stk, po |-> po]
    ELSE [stack |-> Append(stk, NewFrame(h, a)), po |-> po \cup {a}]

Top == stack[Len(stack)]
TopLen == IF heap[Top.a].t = "dict" THEN Len(Top.items) ELSE Len(heap[Top.a].el)
InLoop(kind) ==
    /\ rpc = "resolving" /\ stack # <<>>
    /\ heap[Top.a].t = kind /\ Top.pc = "loop" /\ Top.i <= TopLen
\* the (key, value) pair or the list item of this iteration
Pair == Top.items[Top.i]
Item == heap[Top.a].el[Top.i]

\* item if isinstance(item, str) else (item.get('id') if isinstance(item, dict) else None);
\* "" stands for None and for every other falsy or non-string id
ItemId(h, item) ==
    IF item.t = "str" THEN item.s
    ELSE IF item.t = "ref" /\ h[item.a].t = "dict" /\ HasKey(h[item.a].kv, "id")
              /\ Get(h[item.a].kv, "id").t = "str"
         THEN Get(h[item.a].kv, "id").s
         ELSE ""

\* the test `value not in processed_ids` is left out
ExpandableAgain(key) == key # "" /\ key \in DOMAIN master_db

\* value in master_db and value not in processed_ids
Expandable(key) == key # "" /\ key \in DOMAIN master_db /\ key \notin processed_keys

\* the ways the allocator can place the n containers of a clone: each at an address
\* released earlier (every released address at most once) or at a fresh one
Placements(n) ==
    {p \in [1..n -> freed \cup {0}] :
        \A i, j \in 1..n : (i # j /\ p[i] # 0) => p[i] # p[j]}
FreshBefore(p, i) == Cardinality({j \in 1..(i - 1) : p[j] = 0})
AddrsOf(p, n) == [i \in 1..n |-> IF p[i] # 0 THEN p[i] ELSE nextAddr + FreshBefore(p, i)]

\* master_db[key] itself is embedded, not a copy of it
CloneEntryAlias(h, addrs, a) == [h |-> h, addrs |-> addrs, v |-> Ref(a)]

\* json.loads(json.dumps(master_db[key])) with its containers at addrs
CloneEntry(h, addrs, a) == Store(h, addrs, Load(h, Ref(a)))

Drop(h, a) == [x \in (DOMAIN h) \ {a} |-> h[x]]

\* the key is not recorded before the recursion into its clone
MarkKeyNot(keys, key) == keys

\* processed_ids.add(value)
MarkKey(keys, key) == keys \cup {key}

\* the expansion is stored under the field's own name
DetailsKeySame(key) == key

\* f"{key}_details"
DetailsKey(key) == key \o "_details"

\* a reference to a catalog key met at position i of container a (fld: the field
\* name in a dict), and whether it was expanded there
LogRef(key, expanded) ==
    Append(log, [key |-> key, exp |-> expanded, a |-> Top.a, i |-> Top.i,
                 fld |-> IF heap[Top.a].t = "dict" THEN Top.items[Top.i].k ELSE ""])

\* lines 110-114 and 122-126: mark the key, clone its entry, recurse into the clone
Expand(key) ==
    LET n == CountContainers(Load(heap, Ref(master_db[key])))
    IN \E p \in Placements(n) :
        LET c == CloneEntry(heap, AddrsOf(p, n), master_db[key])
            \* the clone is built before the local new_data lets go of the old one
            h2 == IF Top.dead THEN Drop(c.h, Top.nd) ELSE c.h
            f == [Top EXCEPT !.nd = c.v.a, !.pc = "attach", !.dead = FALSE]
            r == Call(h2, [stack EXCEPT ![Len(stack)] = f], processed_objs, c.v.a)
        IN /\ heap' = h2
           /\ freed' = (freed \ {p[i] : i \in 1..n}) \cup (IF Top.dead THEN {Top.nd} ELSE {})
           /\ released' = released \cup (IF Top.dead THEN {Top.nd} ELSE {})
           /\ nextAddr' = nextAddr + Cardinality({i \in 1..n : p[i] = 0})
           /\ processed_keys' = MarkKey(processed_keys, key)
           /\ processed_objs' = r.po
           /\ stack' = r.stack
           /\ expandCount' = [expandCount EXCEPT ![key] = @ + 1]
           /\ log' = LogRef(key, TRUE)
           /\ steps' = steps + 1

\* the recursive call on a nested container, then the next iteration
Descend(a, newlog) ==
    LET f == [Top EXCEPT !.i = @ + 1]
        r == Call(heap, [stack EXCEPT ![Len(stack)] = f], processed_objs, a)
    IN /\ stack' = r.stack
       /\ processed_objs' = r.po
       /\ log' = newlog
       /\ steps' = steps + 1
       /\ UNCHANGED <<heap, freed, released, nextAddr, processed_keys, expandCount>>

\* an iteration that does nothing
Skip(newlog) ==
    /\ stack' = [stack EXCEPT ![Len(stack)] = [Top EXCEPT !.i = @ + 1]]
    /\ log' = newlog
    /\ steps' = steps + 1
    /\ UNCHANGED <<heap, freed, released, nextAddr, processed_keys, processed_objs,
                   expandCount>>

RFrame ==
    UNCHANGED <<master_db, heroes, catalogJ, heroesJ, hi, debug_data, resolved_data, rpc,
                vvars, mvars, xvars>>

\* line 110-114: a *Id field holding the key of an entry not yet expanded
DictExpandIf ==
    /\ InLoop("dict")
    /\ EndsWithId(Pair.k) /\ Pair.v.t = "str" /\ Expandable(Pair.v.s)

DictExpand ==
    /\ DictExpandIf
    /\ Expand(Pair.v.s)
    /\ RFrame

\* line 115: current_data[f"{key}_details"] = new_data
DictAttachIf ==
    /\ rpc = "resolving" /\ stack # <<>>
    /\ heap[Top.a].t = "dict" /\ Top.pc = "attach"

DictAttach ==
    /\ DictAttachIf
    /\ heap' = [heap EXCEPT ![Top.a] =
                  JDict(DictSet(@.kv, DetailsKey(Pair.k), Ref(Top.nd)))]
    /\ stack' = [stack EXCEPT ![Len(stack)] = [Top EXCEPT !.i = @ + 1, !.pc = "loop"]]
    /\ steps' = steps + 1
    /\ UNCHANGED <<freed, released, nextAddr, processed_keys, processed_objs,
                   expandCount, log>>
    /\ RFrame

\* lines 116-119: a value that is a dict or a list (one of ID_KEYS_FOR_LISTS or not)
DictDescendIf ==
    /\ InLoop("dict")
    /\ ~(EndsWithId(Pair.k) /\ Pair.v.t = "str")
    /\ \/ Pair.k \in ID_KEYS_FOR_LISTS /\ Pair.v.t = "ref" /\ heap[Pair.v.a].t = "list"
       \/ Pair.v.t = "ref"

DictDescend ==
    /\ DictDescendIf
    /\ Descend(Pair.v.a, log)
    /\ RFrame

\* a scalar, or a *Id string that is no catalog key or a key already expanded
DictSkipIf ==
    /\ InLoop("dict")
    /\ \/ EndsWithId(Pair.k) /\ Pair.v.t = "str" /\ ~Expandable(Pair.v.s)
       \/ ~EndsWithId(Pair.k) /\ Pair.v.t # "ref"
       \/ EndsWithId(Pair.k) /\ Pair.v.t \notin {"str", "ref"}

DictSkip ==
    /\ DictSkipIf
    /\ Skip(IF EndsWithId(Pair.k) /\ Pair.v.t = "str" /\ Pair.v.s \in DOMAIN master_db
            THEN LogRef(Pair.v.s, FALSE) ELSE log)
    /\ RFrame

\* lines 122-126: a list item naming an entry not yet expanded
ListExpandIf ==
    /\ InLoop("list")
    /\ Expandable(ItemId(heap, Item))

ListExpand ==
    /\ ListExpandIf
    /\ Expand(ItemId(heap, Item))
    /\ RFrame

\* lines 127-128: a string item is replaced, a mapping item is overlaid
ListAttachIf ==
    /\ rpc = "resolving" /\ stack # <<>>
    /\ heap[Top.a].t = "list" /\ Top.pc = "attach"

ListAttach ==
    /\ ListAttachIf
    /\ IF Item.t = "str"
       THEN /\ heap' = [heap EXCEPT ![Top.a] =
                          JList([@.el EXCEPT ![Top.i] = Ref(Top.nd)])]
            /\ stack' = [stack EXCEPT ![Len(stack)] =
                          [Top EXCEPT !.i = @ + 1, !.pc = "loop"]]
       ELSE /\ heap' = [heap EXCEPT ![Item.a] =
                          JDict(DictUpdate(@.kv, heap[Top.nd].kv))]
            /\ stack' = [stack EXCEPT ![Len(stack)] =
                          [Top EXCEPT !.i = @ + 1, !.pc = "loop", !.dead = TRUE]]
    /\ steps' = steps + 1
    /\ UNCHANGED <<freed, released, nextAddr, processed_keys, processed_objs,
                   expandCount, log>>
    /\ RFrame

\* lines 129-130: an item that is a dict or a list and is not expanded here
ListDescendIf ==
    /\ InLoop("list")
    /\ ~Expandable(ItemId(heap, Item))
    /\ Item.t = "ref"

ListDescend ==
    /\ ListDescendIf
    /\ Descend(Item.a, IF ItemId(heap, Item) \in DOMAIN master_db
                       THEN LogRef(ItemId(heap, Item), FALSE) ELSE log)
    /\ RFrame

\* a string item that is no catalog key or a key already expanded, or a scalar
ListSkipIf ==
    /\ InLoop("list")
    /\ ~Expandable(ItemId(heap, Item))
    /\ Item.t # "ref"

ListSkip ==
    /\ ListSkipIf
    /\ Skip(IF ItemId(heap, Item) \in DOMAIN master_db
            THEN LogRef(ItemId(heap, Item), FALSE) ELSE log)
    /\ RFrame

\* the loop is over: the call returns, and the frame's new_data goes with it
ReturnIf ==
    /\ rpc = "resolving" /\ stack # <<>>
    /\ Top.pc = "loop" /\ Top.i > TopLen

Return ==
    /\ ReturnIf
    /\ stack' = SubSeq(stack, 1, Len(stack) - 1)
    /\ heap' = IF Top.dead THEN Drop(heap, Top.nd) ELSE heap
    /\ freed' = IF Top.dead THEN freed \cup {Top.nd} ELSE freed
    /\ released' = IF Top.dead THEN released \cup {Top.nd} ELSE released
    /\ steps' = steps + 1
    /\ UNCHANGED <<nextAddr, processed_keys, processed_objs, expandCount, log>>
    /\ RFrame

\* hero_main lines 266-269 and hero_parser lines 99-101: the next hero is cloned,
\* processed_ids starts empty and the clone is the first call
StartHeroIf == rpc = "idle" /\ hi <= Len(heroes)

StartHero ==
    /\ StartHeroIf
    /\ LET n == CountContainers(heroesJ[hi])
           c == CloneEntry(heap, FreshAddrs(nextAddr, n), heroes[hi])
           r == Call(c.h, <<>>, {}, c.v.a)
       IN /\ heap' = c.h
          /\ nextAddr' = nextAddr + n
          /\ resolved_data' = c.v.a
          /\ processed_objs' = r.po
          /\ stack' = r.stack
    /\ processed_keys' = {}
    /\ freed' = {}
    /\ released' = {}
    /\ expandCount' = [k \in DOMAIN master_db |-> 0]
    /\ log' = <<>>
    /\ steps' = 0
    /\ rpc' = "resolving"
    /\ UNCHANGED <<master_db, heroes, catalogJ, heroesJ, hi, debug_data, vvars, mvars,
                 xvars>>

\* hero_parser line 102 and hero_main line 270: all_heroes_debug_data[hero_id] = ..
FinishHeroIf == rpc = "resolving" /\ stack = <<>>

FinishHero ==
    /\ FinishHeroIf
    /\ debug_data' = Append(debug_data,
                            [id |-> Get(heap[heroes[hi]].kv, "id").s, root |-> resolved_data])
    /\ hi' = hi + 1
    /\ rpc' = IF hi + 1 > Len(heroes) THEN "done" ELSE "idle"
    /\ UNCHANGED <<heap, master_db, heroes, catalogJ, heroesJ, resolved_data,
                   processed_objs, processed_keys, stack, freed, released, nextAddr,
                   expandCount, log, steps, vvars, mvars, xvars>>

RECURSIVE StoreAll(_, _, _)
\* the objects of a sequence of JSON values, one after the other
StoreAll(h, from, q) ==
    IF q = <<>> THEN [h |-> h, next |-> from, vs |-> <<>>]
    ELSE LET n == CountContainers(Head(q))
             r1 == Store(h, FreshAddrs(from, n), Head(q))
             r2 == StoreAll(r1.h, from + n, Tail(q))
         IN [h |-> r2.h, next |-> r2.next, vs |-> <<r1.v>> \o r2.vs]

\* load_game_data: the catalog and the hero list as Python objects
RInit ==
    \E ea \in EntryShapes("A", "B"), eb \in EntryShapes("B", "A"),
       h1 \in HeroShapes("h1"), h2 \in {SecondHero} :
        LET r == StoreAll(<<>>, 1, <<ea, eb, h1, h2>>)
        IN /\ heap = r.h
           /\ master_db = [k \in CatalogKeys |-> IF k = "A" THEN r.vs[1].a ELSE r.vs[2].a]
           /\ heroes = <<r.vs[3].a, r.vs[4].a>>
           /\ catalogJ = [k \in CatalogKeys |-> IF k = "A" THEN ea ELSE eb]
           /\ heroesJ = <<h1, h2>>
           /\ nextAddr = r.next
           /\ hi = 1
           /\ debug_data = <<>>
           /\ resolved_data = 0
           /\ processed_objs = {}
           /\ processed_keys = {}
           /\ stack = <<>>
           /\ freed = {}
           /\ released = {}
           /\ rpc = "idle"
           /\ expandCount = [k \in CatalogKeys |-> 0]
           /\ log = <<>>
           /\ steps = 0
           /\ VOff /\ MOff /\ XOff

RNext ==
    \/ StartHero
    \/ DictExpand
    \/ DictAttach
    \/ DictDescend
    \/ DictSkip
    \/ ListExpand
    \/ ListAttach
    \/ ListDescend
    \/ ListSkip
    \/ Return
    \/ FinishHero

SpecResolve == RInit /\ [][RNext]_vars

-----------------------------------------------------------------------------
(* Reference Resolver: the claims *)

RECURSIVE SumWork(_)
SumWork(K) ==
    IF K = {} THEN 0
    ELSE LET k == CHOOSE x \in K : TRUE
         IN Work(catalogJ[k]) + 1 + SumWork(K \ {k})

\* the steps one resolve call can take: one call and one iteration per item for
\* every container of the hero clone and of one clone of every catalog entry, and
\* one attachment per entry
StepBound == Work(heroesJ[hi]) + SumWork(DOMAIN catalogJ)

\* _resolve_recursive has returned to get_full_hero_data
Resolved == rpc = "resolving" /\ stack = <<>>

\* the condition under which some step of the resolver can be taken: every action is
\* its condition and an assignment to the next state (Placements is never empty)
CanStep ==
    \/ StartHeroIf \/ FinishHeroIf \/ ReturnIf
    \/ DictExpandIf \/ DictAttachIf \/ DictDescendIf \/ DictSkipIf
    \/ ListExpandIf \/ ListAttachIf \/ ListDescendIf \/ ListSkipIf

\* C1: resolve terminates for every hero record and every catalog, cyclic catalogs
\* included: every step of a resolve call counts in steps, steps never exceeds a
\* bound fixed by the sizes of the hero record and of the catalog, and a run that
\* is not over can always take a step.
C1_ResolveTerminates ==
    /\ rpc = "resolving" => steps <= StepBound
    /\ rpc # "done" => CanStep

\* both heroes are resolved against a catalog in which A names itself in a *Id
\* field, and A and B name each other in their lists
C1_Witness ==
    /\ rpc = "done"
    /\ catalogJ["A"] = Entry("A", "A", <<IdMap("B")>>)
    /\ catalogJ["B"] = Entry("B", "A", <<IdMap("A")>>)
    /\ \A k \in CatalogKeys : expandCount[k] = 1

\* C2: within one resolve call every catalog key is cloned at most once: of the
\* references to a key that the traversal meets, the first is expanded and no
\* later one is, and a later reference in a *Id field gets no _details sibling
\* while a later bare string in a list stays that string.
C2_AtMostOnce ==
    /\ \A k \in DOMAIN expandCount : expandCount[k] <= 1
    /\ \A i \in 1..Len(log) :
          log[i].exp <=> (\A j \in 1..(i - 1) : log[j].key # log[i].key)
    /\ Resolved =>
          \A i \in 1..Len(log) :
              (~log[i].exp /\ log[i].a \notin released) =>
                  LET o == heap[log[i].a]
                  IN IF o.t = "dict"
                     THEN ~HasKey(o.kv, DetailsKey(log[i].fld))
                     ELSE o.el[log[i].i].t = "str" => o.el[log[i].i] = JStr(log[i].key)

\* a key is met three times: expanded at the first reference, and left alone at a
\* later *Id field (other than an entry's own id) and at a later list position
C2_Witness ==
    /\ Resolved
    /\ \E i, j, m \in 1..Len(log) :
          /\ i < j /\ i < m
          /\ log[i].key = log[j].key /\ log[i].key = log[m].key
          /\ log[i].exp
          /\ log[j].fld \notin {"", "id"}
          /\ log[m].fld = ""

\* the dict and list objects of the tree under address a
TreeObjs(a) == Reach(heap, Ref(a))

\* C3, as stated: in a returned tree every *Id field (an entry's own id field left
\* aside) whose string value is a catalog key has a sibling _details sub-tree, and
\* no list element is a bare string that is a catalog key.
C3_NoRawCatalogId ==
    Resolved =>
        \A a \in TreeObjs(resolved_data) :
            LET o == heap[a]
            IN IF o.t = "dict"
               THEN \A i \in 1..Len(o.kv) :
                        (/\ EndsWithId(o.kv[i].k) /\ o.kv[i].k # "id"
                         /\ o.kv[i].v.t = "str" /\ o.kv[i].v.s \in DOMAIN master_db)
                        => HasKey(o.kv, DetailsKey(o.kv[i].k))
               ELSE \A i \in 1..Len(o.el) :
                        ~(o.el[i].t = "str" /\ o.el[i].s \in DOMAIN master_db)

IsEntryOf(v, key) ==
    /\ v.t = "ref" /\ heap[v.a].t = "dict"
    /\ HasKey(heap[v.a].kv, "id") /\ Get(heap[v.a].kv, "id") = JStr(key)

\* C3, amended: in a returned tree the first reference to a catalog key that the
\* traversal meets is expanded where it stands (a *Id field has a sibling _details
\* holding the entry, a list element is the entry), every catalog key the traversal
\* meets is expanded exactly once, and a _details sub-tree stands only beside a
\* field that holds a catalog key: identifiers that are no catalog key stay plain.
C3_FirstReferenceExpanded ==
    Resolved =>
        /\ \A i \in 1..Len(log) :
              /\ expandCount[log[i].key] = 1
              /\ (log[i].exp /\ log[i].a \notin released) =>
                    LET o == heap[log[i].a]
                    IN IF o.t = "dict"
                       THEN /\ HasKey(o.kv, DetailsKey(log[i].fld))
                            /\ IsEntryOf(Get(o.kv, DetailsKey(log[i].fld)), log[i].key)
                       ELSE IsEntryOf(o.el[log[i].i], log[i].key)
        /\ \A a \in TreeObjs(resolved_data) :
              heap[a].t = "dict" =>
                  \A i \in 1..Len(heap[a].kv) :
                      LET pr == heap[a].kv[i]
                      IN (EndsWithId(pr.k) /\ pr.v.t = "str" /\ pr.v.s \notin DOMAIN master_db)
                         => ~HasKey(heap[a].kv, DetailsKey(pr.k))

\* a returned tree in which a *Id field, a bare string in a list and a mapping in
\* a list were expanded, and an identifier that is no catalog key was met
C3_Witness ==
    /\ Resolved
    /\ \E i, j \in 1..Len(log) :
          /\ log[i].exp /\ log[i].fld \notin {"", "id"} /\ log[i].a \notin released
          /\ log[j].exp /\ log[j].fld = "" /\ log[j].a \notin released
    /\ \E a \in TreeObjs(resolved_data) :
          /\ heap[a].t = "dict" /\ HasKey(heap[a].kv, "specialId")
          /\ Get(heap[a].kv, "specialId") = JStr("Z")

\* the objects of the catalog and of the raw hero records
InputObjs ==
    UNION ({Reach(heap, Ref(master_db[k])) : k \in DOMAIN master_db}
           \cup {Reach(heap, Ref(heroes[i])) : i \in 1..Len(heroes)})

\* the trees resolve has built so far, the one under construction included
ResolvedRoots ==
    {debug_data[i].root : i \in 1..Len(debug_data)}
    \cup (IF rpc = "resolving" THEN {resolved_data} ELSE {})

\* C4: resolve leaves every catalog entry and every raw hero record as loaded, and
\* a resolved tree shares no object with the catalog, with a raw record or with
\* another hero's tree, nor holds one object at two places.
C4_NoSharing ==
    /\ \A k \in DOMAIN master_db : Load(heap, Ref(master_db[k])) = catalogJ[k]
    /\ \A i \in 1..Len(heroes) : Load(heap, Ref(heroes[i])) = heroesJ[i]
    /\ \A r \in ResolvedRoots :
          /\ TreeObjs(r) \cap InputObjs = {}
          /\ \A q \in ResolvedRoots : q # r => TreeObjs(r) \cap TreeObjs(q) = {}
          /\ \A a \in TreeObjs(r) : PathCount(heap, Ref(r), a) = 1

\* both heroes are resolved, each tree holding expansions of both catalog entries
C4_Witness ==
    /\ rpc = "done" /\ Len(debug_data) = Len(heroes)
    /\ \A i \in 1..Len(debug_data) :
          Cardinality(TreeObjs(debug_data[i].root))
              > Cardinality(Reach(heap, Ref(heroes[i]))) + 1


-----------------------------------------------------------------------------
(* Value Resolver: the rules file is loaded, then values are looked up *)

\* the rows of a generated rules file
MaxRows == 2

\* rows of exception_hero_rules.csv: a hero's fixed rule under a lower-case
\* placeholder, a common fixed rule with blanks around its fields, a common key
\* rule, a hero's fixed rule that names a key as well, a row without placeholder
\* and a hero's key rule
HeroRows ==
    {Row("h1", "x", "fixed", "7", ""),
     Row("", " X ", "fixed", "2.5", ""),
     Row("", "X", "key", "", "PerMil"),
     Row("h1", "X", "fixed", "abc", "x"),
     Row("h2", "", "fixed", "1", ""),
     Row("h2", "FooBar", "key", "", "fooBar")}

RowSeqs == UNION {[1..n -> HeroRows] : n \in 0..MaxRows}

\* the data scopes looked into
DataBlocks ==
    {JDict(<<KV("xPerMil", JNum(1200)), KV("xPerLevelPerMil", JNum(50))>>),
     JDict(<<KV("xModifierPerMil", JNum(1300))>>),
     JDict(<<KV("x", JNum(5))>>),
     JDict(<<KV("fooBar", JNum(7)), KV("fooPowerPerMil", JNum(100))>>),
     JDict(<<KV("name", JStr("x")),
             KV("effects", JList(<<JDict(<<KV("xPerMil", JNum(10))>>),
                                   JDict(<<KV("xPerMil", JNum(20))>>)>>))>>),
     JDict(<<KV("x", JBool(TRUE)), KV("monsterX", JNum(3))>>),
     JDict(<<KV("xPerMil", JNum(100)), KV("xIncrementPerLevelPerMil", JNum(5))>>),
     JDict(<<KV("xxPerMil", JNum(1)), KV("xPerMil", JNum(2))>>),
     JDict(<<KV("tax", JNum(4)), KV("xa", JNum(6)), KV("ay", JNum(2)), KV("b", JNum(1)),
             KV("note", JStr("ax"))>>),
     JDict(<<>>),
     JList(<<JNum(4)>>)}

PlaceHolders == {"X", "x", "FooBar", "AX"}
MaxLevels == {1, 8}
HeroIds == {"h1", "h2"}
IgnoreLists == {<<>>, <<"monster">>}

VInit ==
    /\ csv_all \in RowSeqs
    /\ csv_rows = csv_all
    /\ rules = NoRules
    /\ vcalled = FALSE
    /\ vcall = VCall("", JDict(<<>>), 1, "", FALSE, <<>>)
    /\ vres = Result(PyNone, PyNone)
    /\ ROff /\ MOff /\ XOff

\* hero_data_loader lines 90-104: one row of the file
LoadRow ==
    /\ csv_rows # <<>>
    /\ rules' = AddRule(rules, Head(csv_rows))
    /\ csv_rows' = Tail(csv_rows)
    /\ UNCHANGED <<csv_all, vcalled, vcall, vres>>
    /\ UNCHANGED <<rvars, mvars, xvars>>

\* the call of find_and_calculate_value, made once the rules are loaded
ResolveValue ==
    /\ csv_rows = <<>> /\ ~vcalled
    /\ \E p_holder \in PlaceHolders, data_block \in DataBlocks, max_level \in MaxLevels,
          hero_id \in HeroIds, is_modifier \in BOOLEAN, ignore_keywords \in IgnoreLists :
          /\ vcall' = VCall(p_holder, data_block, max_level, hero_id, is_modifier,
                            ignore_keywords)
          /\ vres' = find_and_calculate_value(p_holder, data_block, max_level, hero_id,
                                              rules, is_modifier, ignore_keywords)
    /\ vcalled' = TRUE
    /\ UNCHANGED <<csv_all, csv_rows, rules>>
    /\ UNCHANGED <<rvars, mvars, xvars>>

VNext == LoadRow \/ ResolveValue

SpecValue == VInit /\ [][VNext]_vars

-----------------------------------------------------------------------------
(* Value Resolver: the claims *)

\* the rows of the file that give hero h ("" for the common rules) a rule for the
\* placeholder, whatever its case
RowsFor(h, p_holder) ==
    SelectSeq(csv_all, LAMBDA r : /\ Strip(r.hero_id) = h
                                  /\ Strip(r.placeholder) # ""
                                  /\ Upper(Strip(r.placeholder)) = Upper(p_holder))

\* what a rule yields on a data scope
ApplyRule(rule, data_block) ==
    IF rule.calc = "fixed" THEN FixedRule(rule.value) ELSE KeyRule(rule.key, data_block)

\* what the search yields for the call made
HeuristicOfCall ==
    Heuristic(vcall.p_holder, vcall.data_block, vcall.max_level, vcall.is_modifier,
              vcall.ignore_keywords)

\* the rule in force for the call made: the hero's last row, else the last common row
RuleOfCall ==
    LET sp == RowsFor(vcall.hero_id, vcall.p_holder)
        co == RowsFor("", vcall.p_holder)
    IN IF sp # <<>> THEN <<StripRow(sp[Len(sp)])>>
       ELSE IF co # <<>> THEN <<StripRow(co[Len(co)])>>
       ELSE <<>>

\* C5: a call returns what the hero's own rule for the placeholder yields when the
\* rules file has one (rows match the placeholder whatever the case of either),
\* else what the common rule yields when there is one, and the result of the
\* heuristic search only when the file has no rule for the placeholder.
C5_RulePrecedence ==
    vcalled =>
        LET sp == RowsFor(vcall.hero_id, vcall.p_holder)
            co == RowsFor("", vcall.p_holder)
        IN IF sp # <<>> THEN vres = ApplyRule(StripRow(sp[Len(sp)]), vcall.data_block)
           ELSE IF co # <<>> THEN vres = ApplyRule(StripRow(co[Len(co)]), vcall.data_block)
           ELSE vres = HeuristicOfCall

\* the hero has a rule, written under another case of the placeholder, and there is
\* a common rule too; the search would find a value, and the hero's rule is returned
C5_Witness ==
    /\ vcalled
    /\ \E i, j \in 1..Len(csv_all) :
          /\ Strip(csv_all[i].hero_id) = vcall.hero_id
          /\ Strip(csv_all[i].placeholder) # vcall.p_holder
          /\ Upper(Strip(csv_all[i].placeholder)) = Upper(vcall.p_holder)
          /\ Strip(csv_all[j].hero_id) = ""
          /\ Upper(Strip(csv_all[j].placeholder)) = Upper(vcall.p_holder)
          /\ vres = ApplyRule(StripRow(csv_all[i]), vcall.data_block)
          /\ vres # ApplyRule(StripRow(csv_all[j]), vcall.data_block)
    /\ HeuristicOfCall.value # PyNone
    /\ vres # HeuristicOfCall

\* the flattened fields of the call's data scope whose key ends with key
SuffixCount(key) ==
    LET flat_data == flatten_json(vcall.data_block)
    IN Cardinality({i \in 1..Len(flat_data) : EndsWith(flat_data[i].k, key)})

KeyDiagnostic(key) == PyStr("Exception rule key '" \o key \o "' not found or ambiguous")

\* C6, as stated: when the rule in force names a field key and the flattened fields
\* whose key ends with it are none or several, the value is absent and the source
\* is the "not found or ambiguous" diagnostic.
C6_KeyRuleMiss ==
    vcalled =>
        LET found == RuleOfCall
        IN (found # <<>> /\ found[1].key # "" /\ SuffixCount(found[1].key) # 1)
           => vres = Result(PyNone, KeyDiagnostic(found[1].key))

\* C6, amended: the same for a rule that is not a fixed rule; a fixed rule returns
\* its literal whether or not it names a key as well.  A result with the diagnostic
\* is no result of the heuristic search, whose source is a field key or absent.
C6_KeyRuleMissUnlessFixed ==
    vcalled =>
        LET found == RuleOfCall
        IN found # <<>> =>
              /\ (/\ found[1].calc # "fixed" /\ found[1].key # ""
                  /\ SuffixCount(found[1].key) # 1)
                 => vres = Result(PyNone, KeyDiagnostic(found[1].key))
              /\ (found[1].calc = "fixed") => vres = FixedRule(found[1].value)

\* a key rule whose key ends two flattened fields, on a scope in which the search
\* would have found a value
C6_Witness ==
    /\ vcalled /\ vres.value = PyNone
    /\ LET found == RuleOfCall
       IN /\ found # <<>>
          /\ found[1].calc # "fixed" /\ found[1].key # ""
          /\ SuffixCount(found[1].key) > 1
    /\ HeuristicOfCall.value # PyNone

\* the call made was answered by the heuristic search, which selected a leaf
Searched == vcalled /\ vres.src # PyNone /\ RuleOfCall = <<>>

\* the leaves the search looks at
FlatOfCall == DropIgnored(flatten_json(vcall.data_block), vcall.ignore_keywords)

\* C7, as stated: with b the value of the selected leaf, i the value of its
\* companion increment leaf (0 if it has none) and L the max level, the result is
\* ((b - 1000) + i*(L-1)) / 10 for a modifier, (b + i*(L-1)) / 10 for a key that
\* contains "permil", and the integer b + i*(L-1) otherwise.
C7_Conversion ==
    Searched =>
        LET k == vres.src.s
            flat_data == FlatOfCall
            b == NumOf(Get(flat_data, k))
            ik == IncKey(flat_data, k)
            i == IF ik # <<>> /\ ik[1] # k THEN IncVal(flat_data, ik) ELSE 0
            L == vcall.max_level
        IN vres.value =
              IF vcall.is_modifier \/ Contains(Lower(k), "modifier")
              THEN PyFloat((b - 1000) + i * (L - 1))
              ELSE IF Contains(Lower(k), "permil") THEN PyFloat(b + i * (L - 1))
              ELSE PyInt(b + i * (L - 1))

\* the score of a key with w points for a matched fragment
ScoreWith(w, key) ==
    LET key_lower == Lower(key)
        kws == ph_keywords(vcall.p_holder)
    IN w * Cardinality({i \in 1..Len(kws) : Contains(key_lower, kws[i])})
       + (IF Contains(key_lower, "power") \/ Contains(key_lower, "modifier") THEN 5 ELSE 0)
       + (IF Contains(key_lower, "permil") THEN 3 ELSE 0)

\* the keys of the numeric leaves that hold a fragment of the placeholder
Qualified ==
    LET kws == ph_keywords(vcall.p_holder)
        flat_data == FlatOfCall
    IN {flat_data[i].k : i \in {j \in 1..Len(flat_data) :
            /\ IsNumber(flat_data[j].v)
            /\ \E m \in 1..Len(kws) : Contains(Lower(flat_data[j].k), kws[m])}}

\* the selected key is one of the qualified keys, none of which scores more, and
\* none of which scores as much and is shorter
SelectedWith(w) ==
    LET qualified == Qualified
        best == ScoreWith(w, vres.src.s)
    IN /\ vres.src.s \in qualified
       /\ \A k \in qualified :
             LET score == ScoreWith(w, k)
             IN score < best \/ (score = best /\ Len(k) >= Len(vres.src.s))

\* C8, as stated: every matched fragment counts 1.
C8_UnitScore == Searched => SelectedWith(1)

\* C8, amended: a numeric leaf (a boolean is one) scores 10 for every fragment of
\* the placeholder that its lower-cased key contains, + 5 for "power" or
\* "modifier", + 3 for "permil"; a leaf that matches no fragment is out; the leaf
\* of the highest score is selected, the shortest key among equals; and the search
\* finds nothing exactly when no leaf qualifies.
C8_TenPerFragment ==
    (vcalled /\ vcall.data_block.t = "dict" /\ RuleOfCall = <<>>) =>
        /\ vres.src # PyNone => SelectedWith(10)
        /\ vres.src = PyNone <=> Qualified = {}

\* two leaves score the same and the shorter one, which comes later, is selected
C8_Witness ==
    /\ Searched
    /\ LET flat_data == FlatOfCall
           qualified == Qualified
       IN \E i, j \in 1..Len(flat_data) :
             /\ i < j
             /\ flat_data[j].k = vres.src.s
             /\ flat_data[i].k \in qualified
             /\ ScoreWith(10, flat_data[i].k) = ScoreWith(10, flat_data[j].k)
             /\ Len(flat_data[i].k) > Len(flat_data[j].k)

-----------------------------------------------------------------------------
(* Template Matcher: one call on a block, a parent and a candidate list *)

\* the ids of a generated candidate list
MaxCands == 2

LangIds ==
    {"specials.v2.statuseffect.major.poison.enemies.single",
     "specials.v2.statuseffect.major.poison.allies.all",
     "poison.enemies.single.se1",
     "se.poison",
     "familiar.minion.allies",
     "familiar.allies",
     "p.heal.fixedpower",
     "p.heal.decrement",
     "q.heal",
     "r.heal",
     "none.at.all"}

CandLists == UNION {[1..n -> LangIds] : n \in 0..MaxCands}

Blocks ==
    {JDict(<<KV("id", JStr("se1")), KV("statusEffect", JStr("Poison")),
             KV("buff", JStr("MajorDebuff")), KV("statusTargetType", JStr("Enemies")),
             KV("sideAffected", JStr("Single"))>>),
     JDict(<<KV("statusEffect", JStr("Poison")), KV("buff", JStr("Odd"))>>),
     JDict(<<KV("id", JStr("p1")), KV("propertyType", JStr("Heal")),
             KV("flag", JStr("HasFixedPower")), KV("power", JNum(0 - 5))>>),
     JDict(<<KV("id", JStr("f1")), KV("familiarType", JStr("Minion"))>>),
     JDict(<<KV("id", JStr("p2")), KV("propertyType", JStr("Heal")),
             KV("hasFixedPower", JBool(TRUE))>>),
     JDict(<<KV("id", JStr("p2")), KV("propertyType", JStr("Heal"))>>),
     JDict(<<KV("id", JStr("n1")), KV("propertyType", JStr("Chain")),
             KV("effects", JList(<<JDict(<<
                 KV("statusEffect", JStr("Poison")),
                 KV("effects", JList(<<JDict(<<
                     KV("kind", JStr("Heal")),
                     KV("effects", JList(<<JDict(<<KV("kind", JStr("Minion"))>>)>>))>>)>>))
                 >>)>>))>>),
     JDict(<<>>)}

Parents ==
    {JNull, JDict(<<>>), JDict(<<KV("id", JStr("s1"))>>),
     JDict(<<KV("statusTargetType", JStr("Allies")), KV("sideAffected", JStr("All"))>>),
     JDict(<<KV("name", JStr("Heal")),
             KV("statusEffects", JList(<<JDict(<<KV("statusEffect", JStr("Poison"))>>)>>))>>)}

MInit ==
    /\ lang_key_subset \in CandLists
    /\ m_block \in Blocks
    /\ m_parent \in Parents
    /\ m_done = FALSE
    /\ m_res = MatchResult(PyNone, PyNone)
    /\ familiar_debug_log = <<>>
    /\ ROff /\ VOff /\ XOff

\* the call find_best_lang_id(data_block, lang_key_subset, parsers, parent_block)
FindBestLangId ==
    /\ ~m_done
    /\ LET r == find_best_lang_id(m_block, lang_key_subset, familiar_debug_log, m_parent)
       IN /\ m_res' = r.res
          /\ familiar_debug_log' = r.log
    /\ m_done' = TRUE
    /\ UNCHANGED <<lang_key_subset, m_block, m_parent>>
    /\ UNCHANGED <<rvars, vvars, xvars>>

MNext == FindBestLangId

SpecMatch == MInit /\ [][MNext]_vars

-----------------------------------------------------------------------------
(* Template Matcher: the claims *)

\* the id built from the block's own status effect, buff tag, target type and side,
\* <<>> when the block lacks one of them
BlockBuiltId ==
    LET intensity == buff_map(StrOf(m_block, "buff"))
    IN IF /\ StrOf(m_block, "statusEffect") # "" /\ intensity # ""
          /\ StrOf(m_block, "statusTargetType") # "" /\ StrOf(m_block, "sideAffected") # ""
       THEN <<"specials.v2.statuseffect." \o intensity \o "."
              \o Lower(StrOf(m_block, "statusEffect")) \o "."
              \o Lower(StrOf(m_block, "statusTargetType")) \o "."
              \o Lower(StrOf(m_block, "sideAffected"))>>
       ELSE <<>>

\* C9, as stated: for a block that carries the four fields, with or without a
\* parent, the id built from the block's values is returned when the candidate
\* list holds it.
C9_FastPathFromBlock ==
    (m_done /\ BlockBuiltId # <<>> /\ BlockBuiltId[1] \in SeqRange(lang_key_subset))
        => m_res = MatchResult(PyStr(BlockBuiltId[1]), PyNone)

\* the call made took the general path
GeneralPath ==
    /\ m_done
    /\ LET c == ConstructedId(m_block, m_parent)
       IN ~(c # <<>> /\ c[1] \in SeqRange(lang_key_subset))

\* the score of the i-th candidate
ScoreAt(i) == LangScore(m_block, seen_keywords(m_block, m_parent), lang_key_subset[i])

\* C10: in the general path the returned id is a candidate of a score above 0, no
\* candidate scores more, and no candidate of the same score is shorter; when no
\* candidate scores above 0 the id is absent and the diagnostic names the block's
\* id (UNKNOWN without one) and its propertyType, statusEffect or familiarType
\* (N/A without any).
C10_GeneralPath ==
    GeneralPath =>
        LET n == Len(lang_key_subset)
            idText == IF HasKey(m_block.kv, "id") THEN StrOf(m_block, "id") ELSE "UNKNOWN"
            typeText == IF StrOf(m_block, "propertyType") # "" THEN StrOf(m_block, "propertyType")
                        ELSE IF StrOf(m_block, "statusEffect") # "" THEN StrOf(m_block, "statusEffect")
                        ELSE IF StrOf(m_block, "familiarType") # "" THEN StrOf(m_block, "familiarType")
                        ELSE "N/A"
        IN IF \A i \in 1..n : ScoreAt(i) <= 0
           THEN /\ m_res.id = PyNone
                /\ m_res.warning.k = "str"
                /\ Contains(m_res.warning.s, "'" \o idText \o "'")
                /\ Contains(m_res.warning.s, "(type: " \o typeText \o ")")
           ELSE /\ m_res.warning = PyNone
                /\ \E i \in 1..n :
                      /\ m_res.id = PyStr(lang_key_subset[i])
                      /\ ScoreAt(i) > 0
                      /\ \A j \in 1..n :
                            \/ ScoreAt(j) < ScoreAt(i)
                            \/ /\ ScoreAt(j) = ScoreAt(i)
                               /\ Len(lang_key_subset[j]) >= Len(lang_key_subset[i])

\* two candidates of the same score above 0, the longer one first in the list: the
\* shorter one is returned
C10_Witness ==
    /\ GeneralPath
    /\ Len(lang_key_subset) = 2
    /\ ScoreAt(1) > 0 /\ ScoreAt(1) = ScoreAt(2)
    /\ Len(lang_key_subset[1]) > Len(lang_key_subset[2])
    /\ m_res.id = PyStr(lang_key_subset[2])

-----------------------------------------------------------------------------
(* Rendering: format_value and generate_description *)

\* a float held in hundredths, for the values that are no number of tenths
PyCenti(hundredths) == [k |-> "centi", n |-> hundredths, s |-> ""]

Abs(n) == IF n < 0 THEN 0 - n ELSE n

\* str(i)
def_IntStr(n) == IF n < 0 THEN "-" \o ToStr(0 - n) ELSE ToStr(n)

\* the text d.d of a number of tenths
def_TenthsStr(n) ==
    (IF n < 0 THEN "-" ELSE "") \o ToStr(Abs(n) \div 10) \o "." \o ToStr(Abs(n) % 10)

\* the tenths that f"{value:.1f}" gives a float of h >= 0 hundredths: the nearest
\* number of tenths, and the even one when two are equally near.  A float x.y5 lies
\* exactly between two only when it is a binary fraction (x.25, x.75); the floats
\* generated hold no other x.y5.
Round1f(h) ==
    LET q == h \div 10
        r == h % 10
    IN IF r < 5 THEN q
       ELSE IF r > 5 THEN q + 1
       ELSE IF q % 2 = 0 THEN q ELSE q + 1

\* lines 32-36
def_format_value(value) ==
    IF value.k = "float"
    THEN IF value.n % 10 = 0 THEN PyInt(value.n \div 10) ELSE PyStr(TenthsStr(value.n))
    ELSE IF value.k = "centi"
    THEN IF value.n % 100 = 0 THEN PyInt(value.n \div 100)
         ELSE PyStr(TenthsStr(Round1f(value.n)))
    ELSE value

\* str(value)
def_PyStrOf(value) ==
    IF value.k = "int" THEN IntStr(value.n)
    ELSE IF value.k = "str" THEN value.s
    ELSE IF value.k = "float" THEN TenthsStr(value.n)
    ELSE IF value.k = "centi"
    THEN IF value.n % 10 = 0 THEN TenthsStr(value.n \div 10)
         ELSE ToStr(value.n \div 100) \o "." \o ToStr((value.n % 100) \div 10)
              \o ToStr(value.n % 10)
    ELSE "None"

\* {k: format_value(v) for k, v in lang_params.items()}
def_FormatParams(lang_params) ==
    [i \in 1..Len(lang_params) |-> KV(lang_params[i].k, format_value(lang_params[i].v))]

RECURSIVE Fill(_, _)
\* lines 27-29 for one language: every {key} replaced by str(value), in the order
\* of the parameters
Fill(desc, lang_params) ==
    IF lang_params = <<>> THEN desc
    ELSE Fill(Replace(desc, "{" \o Head(lang_params).k \o "}", PyStrOf(Head(lang_params).v)),
              Tail(lang_params))

\* lines 23-30; lang_db is held as the sequence of its (id, texts) items
def_generate_description(lang_id, lang_params, lang_db) ==
    LET template == IF HasKey(lang_db, lang_id) THEN Get(lang_db, lang_id)
                    ELSE Texts("NO_TEMPLATE_FOR_" \o lang_id, "NO_TEMPLATE_FOR_" \o lang_id)
    IN Texts(Fill(template.en, lang_params), Fill(template.ja, lang_params))

-----------------------------------------------------------------------------
(* Rendering: one description is generated from a template and its parameters *)

\* the templates of the rendering runs
RenderDb ==
    <<KV("t.deal", Texts("Deal {HEALTH}% damage", "{HEALTH}% no damage")),
      KV("t.twice", Texts("{HEALTH} and {HEALTH} for {TURNS}", "{TURNS}: {HEALTH}"))>>

RenderIds == {"t.deal", "t.twice", "t.none"}

\* the largest number of hundredths of the small floats generated
MaxCenti == 120

\* floats of hundredths: the small ones, and those around 150
CentiValues ==
    {h \in (0..MaxCenti) \cup (15000..15030) : h % 10 # 5 \/ h % 25 = 0}

\* parameter values: ints, floats of tenths, floats of hundredths, strings
RenderValues ==
    {PyInt(n) : n \in {0 - 30, 0, 7, 150}}
    \cup {PyFloat(n) : n \in {0 - 305, 0 - 300, 0, 5, 1500, 1502, 1503}}
    \cup {PyCenti(h) : h \in CentiValues}
    \cup {PyStr("abc")}

RenderInit ==
    /\ g_lang_id \in RenderIds
    /\ \E v \in RenderValues, t \in {<<>>, <<KV("TURNS", PyInt(3))>>} :
          g_params = <<KV("HEALTH", v)>> \o t
    /\ g_done = FALSE
    /\ g_desc = Texts("", "")
    /\ ROff /\ VOff /\ MOff /\ POff

\* generate_description(lang_id, {k: format_value(v) ..}, lang_db), as the parsers
\* call it (lines 348, 389, 435, 473)
Render ==
    /\ ~g_done
    /\ g_desc' = generate_description(g_lang_id, FormatParams(g_params), RenderDb)
    /\ g_done' = TRUE
    /\ UNCHANGED <<g_lang_id, g_params>>
    /\ UNCHANGED <<rvars, vvars, mvars, pvars>>

RenderNext == Render

SpecRender == RenderInit /\ [][RenderNext]_vars

-----------------------------------------------------------------------------
(* Rendering: the claims *)

\* the text of h hundredths with one decimal, a half rounded up
HalfUpStr(h) == TenthsStr((h + 5) \div 10)

\* C11, as stated: a float parameter with an integral value is rendered without a
\* fraction, and any other float rounded to one decimal place, a half going up as
\* in 150.25 -> "150.3": "Deal {HEALTH}% damage" renders "Deal 150.3% damage".
C11_RenderRounded ==
    (g_done /\ g_lang_id = "t.deal" /\ g_params[1].v.k = "centi") =>
        LET h == g_params[1].v.n
            text == IF h % 100 = 0 THEN ToStr(h \div 100) ELSE HalfUpStr(h)
        IN g_desc.en = "Deal " \o text \o "% damage"

-----------------------------------------------------------------------------
(* Phase 2: helpers of the parsers *)

\* d.get(key, default) for a dict d
GetOr(d, key, default) == IF HasKey(d.kv, key) THEN Get(d.kv, key) ELSE default

\* bool(value) of a JSON value
IsTruthy(j) ==
    IF j.t = "str" THEN j.s # ""
    ELSE IF j.t = "num" THEN j.n # 0
    ELSE IF j.t = "bool" THEN j.b
    ELSE IF j.t = "dict" THEN j.kv # <<>>
    ELSE IF j.t = "list" THEN j.el # <<>>
    ELSE FALSE

\* d.get(key, 0) for a numeric field
def_NumField(d, key) == NumOf(GetOr(d, key, JNum(0)))

\* the characters \w matches, among those of the texts generated
def_IsWordChar(c) == IsUpperChar(c) \/ IsLowerChar(c) \/ IsDigit(c) \/ c = "_"

\* the length of the longest run of word characters of s that starts at i
def_WordRun(s, i) ==
    LET stops == {j \in i..Len(s) : ~IsWordChar(CharAt(s, j))}
    IN IF i > Len(s) THEN 0
       ELSE IF stops = {} THEN Len(s) - i + 1
       ELSE (CHOOSE j \in stops : \A m \in stops : j <= m) - i

\* the positions from i on where re.finditer(r'\{(\w+)\}', s) matches: a match holds
\* no "{" after its first character, so that no two of them overlap
TokenStarts(s, i) ==
    {j \in i..Len(s) :
        /\ CharAt(s, j) = "{"
        /\ WordRun(s, j + 1) > 0
        /\ j + WordRun(s, j + 1) + 1 <= Len(s)
        /\ CharAt(s, j + WordRun(s, j + 1) + 1) = "}"}

\* re.findall(r'\{(\w+)\}', s) from position i on: the names, in order
FindTokens(s, i) ==
    LET starts == TokenStarts(s, i)
    IN [k \in 1..Cardinality(starts) |->
          LET j == CHOOSE j \in starts : Cardinality({m \in starts : m < j}) = k - 1
          IN SubSeq(s, j + 1, j + WordRun(s, j + 1))]

RECURSIVE Distinct(_)
\* the members of a sequence, each once, in the order of their first occurrence
Distinct(q) ==
    IF q = <<>> THEN <<>>
    ELSE LET rest == Distinct(SubSeq(q, 1, Len(q) - 1))
         IN IF q[Len(q)] \in SeqRange(rest) THEN rest ELSE Append(rest, q[Len(q)])

\* set(re.findall(r'\{(\w+)\}', text)), as the sequence a loop over it visits.
\* Python fixes no order for it: in the templates generated at most one member of
\* the set gets a value from the loop, so that the order does not show.
def_Placeholders(text) == Distinct(FindTokens(text, 1))

\* the (id, texts) entry of lang_db.get(lang_id, {}).get("en", "")
TemplateEn(lang_db, lang_id) == IF HasKey(lang_db, lang_id) THEN Get(lang_db, lang_id).en ELSE ""

\* a value held by a JSON field, as a Python value
PyOf(j) ==
    IF j.t = "num" THEN PyInt(j.n)
    ELSE IF j.t = "bool" THEN PyInt(IF j.b THEN 1 ELSE 0)
    ELSE IF j.t = "str" THEN PyStr(j.s)
    ELSE PyNone

\* json.dumps of a parameter value
def_DumpValue(v) ==
    IF v.k = "int" THEN IntStr(v.n)
    ELSE IF v.k = "float" THEN TenthsStr(v.n)
    ELSE IF v.k = "str" THEN "\"" \o v.s \o "\""
    ELSE "null"

RECURSIVE DumpItems(_)
DumpItems(lang_params) ==
    IF lang_params = <<>> THEN ""
    ELSE "\"" \o Head(lang_params).k \o "\": " \o DumpValue(Head(lang_params).v)
         \o (IF Len(lang_params) > 1 THEN ", " ELSE "") \o DumpItems(Tail(lang_params))

\* json.dumps(lang_params)
def_DumpParams(lang_params) == "{" \o DumpItems(lang_params) \o "}"

\* round(n / d) for ints n and d > 0: the nearest int, the even one of two
RoundDiv(n, d) ==
    LET q == n \div d
        r == n % d
    IN IF 2 * r < d THEN q
       ELSE IF 2 * r > d THEN q + 1
       ELSE IF q % 2 = 0 THEN q ELSE q + 1

\* math.floor((value / 100) * max_attack) for a value of tenths
FloorDamage(tenths, max_attack) == (tenths * max_attack) \div 1000

RECURSIVE UpToBrace(_)
\* the text before its first "{"
UpToBrace(s) ==
    IF s = "" \/ SubSeq(s, 1, 1) = "{" THEN ""
    ELSE IF Len(s) = 1 THEN s
    ELSE LET head == UpToBrace(SubSeq(s, 1, Len(s) \div 2))
         IN IF Len(head) < Len(s) \div 2 THEN head
            ELSE head \o UpToBrace(SubSeq(s, Len(s) \div 2 + 1, Len(s)))

\* the texts without what follows a token left in them
TextFieldsCut(desc) == <<KV("en", JStr(UpToBrace(desc.en))), KV("ja", JStr(UpToBrace(desc.ja)))>>

\* the texts of a description as the fields of an item
TextFields(desc) == <<KV("en", JStr(desc.en)), KV("ja", JStr(desc.ja))>>

-----------------------------------------------------------------------------
(* Phase 2: the parsers' context, parsers *)

\* what a parser returns besides its items: the warnings, the context after the
\* call, and whether the call raised instead of returning
Parsed(items, warnings, ctx) == [items |-> items, warnings |-> warnings, ctx |-> ctx, raised |-> FALSE]
Raised(ctx) == [items |-> <<>>, warnings |-> <<>>, ctx |-> ctx, raised |-> TRUE]

\* parsers.get("main_max_level", 8): the key is held as <<>> while it is not set
MainMaxLevel(ctx) == IF ctx.main_max_level = <<>> THEN 8 ELSE ctx.main_max_level[1]

\* special_data.get("maxLevel", default)
def_MaxLevelOf(special_data, default) == NumOf(GetOr(special_data, "maxLevel", JNum(default)))

-----------------------------------------------------------------------------
(* Phase 2: get_hero_final_stats *)

\* lines 133-141; a stats entry holds the columns load_hero_stats_from_csv keeps
\* (id, attack, defense, health, power), so that no "Max level" column is found
get_hero_final_stats(hero_id, hero_stats_db) ==
    IF ~HasKey(hero_stats_db, hero_id) \/ Get(hero_stats_db, hero_id) = <<>>
    THEN [max_attack |-> 0, name |-> "N/A"]
    ELSE LET hero_data == Get(hero_stats_db, hero_id)
         IN [max_attack |-> IF HasKey(hero_data, "Max level: Attack")
                            THEN NatOf(Get(hero_data, "Max level: Attack")) ELSE 0,
             name |-> IF HasKey(hero_data, "Name") THEN Get(hero_data, "Name") ELSE "N/A"]

-----------------------------------------------------------------------------
(* Phase 2: parse_direct_effect and parse_clear_buffs *)

\* lines 276-285
def_DirectLangId(effect_data) ==
    LET effect_type_str == StrOf(effect_data, "effectType")
        t == StrOf(effect_data, "typeOfTarget")
        s == StrOf(effect_data, "sideAffected")
        power_value == NumField(effect_data, "powerMultiplierPerMil")
    IN "specials.v2.directeffect." \o Lower(effect_type_str)
       \o (IF t # "" THEN "." \o Lower(t) ELSE "")
       \o (IF s # "" THEN "." \o Lower(s) ELSE "")
       \o (IF effect_type_str = "AddMana" /\ power_value > 0 THEN ".increment"
           ELSE IF effect_type_str = "AddMana" /\ power_value < 0 THEN ".decrement"
           ELSE "")
       \o (IF IsTruthy(GetOr(effect_data, "hasFixedPower", JNull)) THEN ".fixedpower" ELSE "")

\* line 290-291
p_map(effect_type_str) ==
    IF effect_type_str \in {"Damage", "Heal"} THEN "HEALTH"
    ELSE IF effect_type_str = "HealthBoost" THEN "HEALTHBOOST"
    ELSE IF effect_type_str = "AddMana" THEN "MANA"
    ELSE "VALUE"

\* lines 287-297
def_DirectParams(special_data, effect_data, ctx) ==
    LET max_level == MaxLevelOf(special_data, MainMaxLevel(ctx))
        base == NumField(effect_data, "powerMultiplierPerMil")
        inc == NumField(effect_data, "powerMultiplierIncrementPerLevelPerMil")
        effect_type_str == StrOf(effect_data, "effectType")
        placeholder == p_map(effect_type_str)
        total_per_mil == base + inc * (max_level - 1)
    IN IF base > 0 \/ inc > 0
       THEN <<KV(placeholder,
                 PyInt(IF IsTruthy(GetOr(effect_data, "hasFixedPower", JNull))
                       THEN total_per_mil
                       ELSE IF effect_type_str = "AddMana" THEN RoundDiv(total_per_mil, 100)
                       ELSE RoundDiv(total_per_mil, 10)))>>
       ELSE IF base < 0 \/ inc < 0
       THEN <<KV(placeholder, PyInt(Abs(RoundDiv(total_per_mil, 100))))>>
       ELSE <<>>

\* lines 272-299: the item of the direct effect
def_parse_direct_effect(special_data, lang_db, ctx) ==
    LET effect_data == GetOr(special_data, "directEffect", JNull)
    IN IF ~IsTruthy(effect_data) \/ StrOf(effect_data, "effectType") = ""
       THEN JDict(<<KV("id", JStr("direct_effect_no_type")), KV("lang_id", JStr("N/A")),
                    KV("params", JStr("{}")), KV("en", JStr("")), KV("ja", JStr(""))>>)
       ELSE LET lang_id == DirectLangId(effect_data)
                params == DirectParams(special_data, effect_data, ctx)
                desc == generate_description(lang_id, params, lang_db)
            IN JDict(<<KV("lang_id", JStr(lang_id)), KV("params", JStr(DumpParams(params)))>>
                     \o TextFields(desc))

\* lines 255-263
def_ClearBuffsLangId(special_data) ==
    LET buff_to_remove == LowerStrOf(special_data, "buffToRemove")
        target_type == IF HasKey(special_data.kv, "buffToRemoveTargetType")
                       THEN LowerStrOf(special_data, "buffToRemoveTargetType") ELSE "all"
        s1 == IF Contains(buff_to_remove, "debuff") THEN "allies"
              ELSE IF Contains(buff_to_remove, "buff") THEN "enemies"
              ELSE ""
        s2 == IF s1 = "" THEN LowerStrOf(special_data, "buffToRemoveSideAffected") ELSE s1
        s3 == IF s2 = "" THEN LowerStrOf(special_data, "sideAffected") ELSE s2
        s4 == IF s3 = ""
              THEN LowerStrOf(GetOr(special_data, "directEffect", JDict(<<>>)), "sideAffected")
              ELSE s3
        side_affected == IF s4 = ""
                         THEN (IF Contains(buff_to_remove, "debuff") THEN "allies" ELSE "enemies")
                         ELSE s4
    IN "specials.v2.clearbuffs." \o buff_to_remove \o "." \o target_type \o "." \o side_affected

\* lines 251-270: <<>> for None, else <<the item>>; the fields generated are strings,
\* so that nothing is raised inside the try; the warnings returned are empty
def_parse_clear_buffs(special_data, lang_db) ==
    IF ~HasKey(special_data.kv, "buffToRemove") THEN <<>>
    ELSE LET id0 == ClearBuffsLangId(special_data)
             lang_id == IF ~HasKey(lang_db, id0) /\ HasKey(lang_db, id0 \o ".latest")
                        THEN id0 \o ".latest" ELSE id0
             description == generate_description(lang_id, <<>>, lang_db)
         IN <<JDict(<<KV("id", JStr("clear_buffs_effect")), KV("lang_id", JStr(lang_id)),
                      KV("params", JStr("{}")), KV("nested_effects", JList(<<>>))>>
                    \o TextFields(description))>>

-----------------------------------------------------------------------------
(* Phase 2: the arguments the parsers hand on unchanged are held in one record, *)
(* env: hero_stats, lang_db, game_db['special_properties'], hero_id and rules   *)
(* (rules.lang_overrides and rules.hero_rules, each [specific, common])         *)

Env(hero_stats, lang_db, special_properties, hero_id, rs) ==
    [hero_stats |-> hero_stats, lang_db |-> lang_db,
     special_properties |-> special_properties, hero_id |-> hero_id, rules |-> rs]

\* the common override is looked up before the hero's
LangOverrideCommonFirst(rs, hero_id, item_id) ==
    IF item_id \in DOMAIN rs.lang_overrides.common /\ rs.lang_overrides.common[item_id] # ""
    THEN <<rs.lang_overrides.common[item_id]>>
    ELSE IF /\ hero_id \in DOMAIN rs.lang_overrides.specific
            /\ item_id \in DOMAIN rs.lang_overrides.specific[hero_id]
            /\ rs.lang_overrides.specific[hero_id][item_id] # ""
    THEN <<rs.lang_overrides.specific[hero_id][item_id]>>
    ELSE <<>>

\* lines 337 and 370: the hero's override for the item, else the common one, <<>>
\* for None
LangOverride(rs, hero_id, item_id) ==
    IF /\ hero_id \in DOMAIN rs.lang_overrides.specific
       /\ item_id \in DOMAIN rs.lang_overrides.specific[hero_id]
       /\ rs.lang_overrides.specific[hero_id][item_id] # ""
    THEN <<rs.lang_overrides.specific[hero_id][item_id]>>
    ELSE IF item_id \in DOMAIN rs.lang_overrides.common /\ rs.lang_overrides.common[item_id] # ""
    THEN <<rs.lang_overrides.common[item_id]>>
    ELSE <<>>

\* the text "\n" followed by the middle dot of the bullet lists, the dot written -
Bullet == "\n-"

RECURSIVE StripWs(_)
\* str.strip(): blanks and newlines
StripWs(s) ==
    IF Len(s) > 0 /\ CharAt(s, 1) \in {" ", "\n"} THEN StripWs(SubSeq(s, 2, Len(s)))
    ELSE IF Len(s) > 0 /\ CharAt(s, Len(s)) \in {" ", "\n"}
    THEN StripWs(SubSeq(s, 1, Len(s) - 1))
    ELSE s

\* lines 91-92: re.sub(r'\[\*\]|\n\s*\n', bullet, text).strip(); the templates
\* generated hold no blank line
def_BulletText(text) == StripWs(Replace(text, "[*]", Bullet))

\* lines 53-63: the first id of extra_lang_ids that holds the skill name, ".extra"
\* and one of the categories, <<>> for None
def_ExtraLangId(categories, skill_name, extra_lang_ids) ==
    LET ok(key) == /\ Contains(key, Lower(skill_name)) /\ Contains(key, ".extra")
                   /\ \E c \in 1..Len(categories) : Contains(key, categories[c])
        hits == SelectSeq(extra_lang_ids, ok)
    IN IF hits = <<>> THEN <<>> ELSE <<hits[1]>>

\* lines 71-83: a placeholder takes its value from the main parameters, and the
\* value resolver is asked for it only when they have none
def_ExtraParams(ps, search_context, main_params, env, acc) ==
    IF ps = <<>> THEN acc
    ELSE LET p == Head(ps)
             r == find_and_calculate_value(p, search_context,
                      NumOf(GetOr(search_context, "maxLevel", JNum(8))),
                      env.hero_id, env.rules.hero_rules, FALSE, <<>>)
             acc2 == IF HasKey(main_params, p) THEN Append(acc, KV(p, Get(main_params, p)))
                     ELSE IF r.value # PyNone THEN Append(acc, KV(p, r.value))
                     ELSE acc
         IN ExtraParams(Tail(ps), search_context, main_params, env, acc2)

\* lines 39-94: <<>> for {}, else <<the tooltip>>
def_find_and_parse_extra_description(categories, skill_name, search_context, main_params, env, ctx) ==
    IF skill_name = "" \/ categories = <<>> THEN <<>>
    ELSE LET found == ExtraLangId(categories, skill_name, ctx.extra_lang_ids)
         IN IF found = <<>> \/ ~HasKey(env.lang_db, found[1]) THEN <<>>
            ELSE LET extra_lang_id == found[1]
                     extra_placeholders == Placeholders(TemplateEn(env.lang_db, extra_lang_id))
                     inherited == SelectSeq(extra_placeholders, LAMBDA p : HasKey(main_params, p))
                     remaining == SelectSeq(extra_placeholders, LAMBDA p : ~HasKey(main_params, p))
                     extra_params == ExtraParams(inherited \o remaining, search_context,
                                                 main_params, env, <<>>)
                     extra_desc == generate_description(extra_lang_id,
                                       FormatParams(extra_params), env.lang_db)
                 IN <<JDict(<<KV("lang_id", JStr(extra_lang_id)),
                              KV("params", JStr(DumpParams(extra_params))),
                              KV("en", JStr(BulletText(extra_desc.en))),
                              KV("ja", JStr(BulletText(extra_desc.ja)))>>)>>

\* result_item["extra"] = extra_info, when there is one
WithExtra(fields, extra_info) ==
    IF extra_info = <<>> THEN fields ELSE Append(fields, KV("extra", extra_info[1]))

\* an item that names no failure, for the item without a template
SearchFailedUnmarked(item_id, what) ==
    JDict(<<KV("id", JStr(item_id)), KV("lang_id", JStr("N/A")),
            KV("en", JStr("")), KV("params", JStr("{}"))>>)

\* the marker item of an item without a template
SearchFailed(item_id, what) ==
    JDict(<<KV("id", JStr(item_id)), KV("lang_id", JStr("SEARCH_FAILED")),
            KV("en", JStr("Failed for " \o what \o item_id)), KV("params", JStr("{}"))>>)

\* the statements of a body run in order: what the first of them gives is there
\* before the value built from it
After(first, rest) == IF first = first THEN rest ELSE rest

\* what the loop of a parser has built so far, and with the outcome r of an item
Extend(acc, r) ==
    [items |-> acc.items \o r.items, warnings |-> acc.warnings \o r.warnings,
     ctx |-> r.ctx, raised |-> acc.raised \/ r.raised]

\* lines 339 and 372: the template id by override or by the matcher; the id is
\* <<>> for None, warning is <<>> or <<the warning>>, log the familiar debug log
def_PickLangId(item_id, data_block, lang_keys, parent_block, env, ctx) ==
    LET over == LangOverride(env.rules, env.hero_id, item_id)
        r == find_best_lang_id(data_block, lang_keys, ctx.familiar_debug_log, parent_block)
    IN IF over # <<>> THEN [lang_id |-> over, warning |-> <<>>, ctx |-> ctx]
       ELSE [lang_id |-> IF r.res.id = PyNone THEN <<>> ELSE <<r.res.id.s>>,
             warning |-> IF r.res.warning = PyNone THEN <<>> ELSE <<r.res.warning.s>>,
             ctx |-> [ctx EXCEPT !.familiar_debug_log = r.log]]

-----------------------------------------------------------------------------
(* Phase 2: parse_status_effects *)

\* no parameter is set before the placeholders are looked at
TurnsParamNone(combined_details) == <<>>

\* line 377: lang_params["TURNS"] = turns when turns > 0
TurnsParam(combined_details) ==
    IF NumField(combined_details, "turns") > 0
    THEN <<KV("TURNS", PyInt(NumField(combined_details, "turns")))>> ELSE <<>>

\* lines 380-388
def_StatusParams(ps, combined_details, search_context, main_max_level, template_text, env, acc) ==
    IF ps = <<>> THEN acc
    ELSE LET p_holder == Head(ps)
             r == find_and_calculate_value(p_holder, search_context, main_max_level,
                      env.hero_id, env.rules.hero_rules,
                      Contains(LowerStrOf(combined_details, "statusEffect"), "modifier"), <<>>)
             found_key == IF r.src.k = "str" THEN r.src.s ELSE ""
             turns_for_calc == NumField(combined_details, "turns")
             damage_per_turn == FloorDamage(r.value.n * (IF r.value.k = "int" THEN 10 ELSE 1),
                                            env.hero_stats.max_attack)
             value == IF Upper(p_holder) = "DAMAGE" /\ Contains(Lower(found_key), "permil")
                      THEN PyInt(IF Contains(template_text, "over {TURNS} turns")
                                 THEN damage_per_turn
                                      * (IF turns_for_calc # 0 THEN turns_for_calc ELSE 1)
                                 ELSE damage_per_turn)
                      ELSE r.value
             acc2 == IF HasKey(acc, p_holder) \/ r.value = PyNone THEN acc
                     ELSE Append(acc, KV(p_holder, value))
         IN StatusParams(Tail(ps), combined_details, search_context, main_max_level,
                         template_text, env, acc2)

RECURSIVE StatusEffectLoop(_, _, _, _), StatusEffectItem(_, _, _, _)

\* lines 367-400: one pass of the loop, for a list element
StatusEffectItem(effect_instance, special_data, env, ctx) ==
    IF effect_instance.t # "dict" \/ ~IsTruthy(GetOr(effect_instance, "id", JNull))
    THEN Parsed(<<>>, <<>>, ctx)
    ELSE
    LET effect_id == StrOf(effect_instance, "id")
        combined_details == effect_instance
        main_max_level == MaxLevelOf(special_data, 8)
        pick == PickLangId(effect_id, combined_details, ctx.se_lang_subset, special_data,
                           env, ctx)
    IN IF pick.lang_id = <<>>
       THEN Parsed(<<SearchFailed(effect_id, "")>>, pick.warning, pick.ctx)
       ELSE
       LET lang_id == pick.lang_id[1]
           search_context == JDict(DictSet(combined_details.kv, "maxLevel", JNum(main_max_level)))
           template_text == TemplateEn(env.lang_db, lang_id)
           lang_params == StatusParams(Placeholders(template_text), combined_details,
                              search_context, main_max_level, template_text, env,
                              TurnsParam(combined_details))
           main_desc == generate_description(lang_id, FormatParams(lang_params), env.lang_db)
           nested == IF HasKey(combined_details.kv, "statusEffectsToAdd")
                     THEN parse_status_effects(Get(combined_details.kv, "statusEffectsToAdd"),
                                               special_data, env, pick.ctx)
                     ELSE Parsed(<<>>, <<>>, pick.ctx)
           extra_info == find_and_parse_extra_description(<<"statuseffect">>,
                             StrOf(combined_details, "statusEffect"), search_context,
                             lang_params, env, nested.ctx)
           result_item == <<KV("id", JStr(effect_id)), KV("lang_id", JStr(lang_id)),
                            KV("params", JStr(DumpParams(lang_params))),
                            KV("nested_effects", JList(nested.items))>>
                          \o TextFields(main_desc)
       IN Parsed(<<JDict(WithExtra(result_item, extra_info))>>,
                 pick.warning \o nested.warnings, nested.ctx)

StatusEffectLoop(el, special_data, env, acc) ==
    IF el = <<>> THEN acc
    ELSE StatusEffectLoop(Tail(el), special_data, env,
                          Extend(acc, StatusEffectItem(Head(el), special_data, env, acc.ctx)))

\* lines 361-401
def_parse_status_effects(status_effects_list, special_data, env, ctx) ==
    IF ~IsTruthy(status_effects_list) THEN Parsed(<<>>, <<>>, ctx)
    ELSE StatusEffectLoop(status_effects_list.el, special_data, env, Parsed(<<>>, <<>>, ctx))

-----------------------------------------------------------------------------
(* Phase 2: parse_properties *)

\* line 313
container_types(mana_speed) ==
    IF mana_speed = "changing_tides" THEN "RotatingSpecial"
    ELSE IF mana_speed \in {"charge_ninja", "charge_magic"} THEN "ChargedSpecial"
    ELSE ""

\* line 315
container_lang_ids(mana_speed) ==
    IF mana_speed = "changing_tides" THEN "specials.v2.property.evolving_special"
    ELSE IF mana_speed = "charge_ninja" THEN "specials.v2.property.chargedspecial.3"
    ELSE "specials.v2.property.chargedspecial.2"

\* line 316; the Japanese headings are written in ASCII
def_container_headings(mana_speed) ==
    IF mana_speed = "changing_tides"
    THEN Texts(<<"1st:", "2nd:">>, <<"dai1:", "dai2:">>)
    ELSE IF mana_speed = "charge_ninja"
    THEN Texts(<<"x1 Mana Charge:", "x2 Mana Charge:", "x3 Mana Charge:">>,
               <<"x1 mana chaaji:", "x2 mana chaaji:", "x3 mana chaaji:">>)
    ELSE Texts(<<"x1 Mana Charge:", "x2 Mana Charge:">>,
               <<"x1 mana chaaji:", "x2 mana chaaji:">>)

\* lines 324-326: the heading of the i-th sub-special, i counted from 0
def_Heading(mana_speed, i) ==
    LET headings == container_headings(mana_speed)
    IN JDict(<<KV("id", JStr("heading")),
               KV("description_en", JStr(IF i < Len(headings.en) THEN headings.en[i + 1]
                                         ELSE "Level " \o ToStr(i + 1) \o ":")),
               KV("description_ja", JStr(IF i < Len(headings.ja) THEN headings.ja[i + 1]
                                         ELSE "reberu " \o ToStr(i + 1) \o ":"))>>)

\* lines 345-347
def_PropertyParams(ps, search_context, main_max_level, is_modifier, env, acc) ==
    IF ps = <<>> THEN acc
    ELSE LET r == find_and_calculate_value(Head(ps), search_context, main_max_level,
                      env.hero_id, env.rules.hero_rules, is_modifier, <<>>)
         IN PropertyParams(Tail(ps), search_context, main_max_level, is_modifier, env,
                           IF r.value # PyNone THEN Append(acc, KV(Head(ps), r.value)) ELSE acc)

RECURSIVE PropertyLoop(_, _, _, _, _), PropertyItem(_, _, _, _, _), SubSpecials(_, _, _, _, _)

\* lines 322-334: the nested effects of the sub-specials from the i-th on
SubSpecials(subs, i, env, mana_speed, acc) ==
    IF i >= Len(subs) THEN acc
    ELSE LET sub_special_data == subs[i + 1]
         IN IF sub_special_data.t # "dict" \/ sub_special_data.kv = <<>>
            THEN SubSpecials(subs, i + 1, env, mana_speed, acc)
            ELSE
            LET a1 == Extend(acc, Parsed(<<Heading(mana_speed, i)>>, <<>>, acc.ctx))
                a2 == IF HasKey(sub_special_data.kv, "directEffect")
                      THEN Extend(a1, Parsed(<<parse_direct_effect(sub_special_data,
                                                   env.lang_db, a1.ctx)>>, <<>>, a1.ctx))
                      ELSE a1
                a3 == IF HasKey(sub_special_data.kv, "properties")
                      THEN Extend(a2, parse_properties(Get(sub_special_data.kv, "properties"),
                                                       sub_special_data, env, a2.ctx))
                      ELSE a2
                a4 == IF HasKey(sub_special_data.kv, "statusEffects")
                      THEN Extend(a3, parse_status_effects(
                                          Get(sub_special_data.kv, "statusEffects"),
                                          sub_special_data, env, a3.ctx))
                      ELSE a3
            IN SubSpecials(subs, i + 1, env, mana_speed, a4)

\* lines 308-358: one pass of the loop, for a list element
PropertyItem(prop_id_or_dict, special_data, main_max_level, env, ctx) ==
    LET prop_data == IF prop_id_or_dict.t = "dict" THEN prop_id_or_dict
                     ELSE IF prop_id_or_dict.t = "str"
                     THEN GetOr(JDict(env.special_properties), prop_id_or_dict.s, JDict(<<>>))
                     ELSE JDict(<<>>)
        prop_id == IF prop_id_or_dict.t = "dict" THEN StrOf(prop_id_or_dict, "id")
                   ELSE IF prop_id_or_dict.t = "str" THEN prop_id_or_dict.s
                   ELSE ""
        property_type == StrOf(prop_data, "propertyType")
        mana_speed == IF ctx.hero_mana_speed_id.k = "str" THEN ctx.hero_mana_speed_id.s ELSE ""
    IN IF prop_data.kv = <<>> \/ prop_id = "" THEN Parsed(<<>>, <<>>, ctx)
       ELSE IF container_types(mana_speed) # "" /\ property_type = container_types(mana_speed)
       THEN LET container_lang_id == container_lang_ids(mana_speed)
                container_desc == generate_description(container_lang_id, <<>>, env.lang_db)
                sub_specials_list == GetOr(prop_data, "specialIds", JList(<<>>))
                nested == SubSpecials(sub_specials_list.el, 0, env, mana_speed,
                                      Parsed(<<>>, <<>>, ctx))
            IN Parsed(<<JDict(<<KV("id", JStr(prop_id)), KV("lang_id", JStr(container_lang_id)),
                                KV("description_en", JStr(container_desc.en)),
                                KV("description_ja", JStr(container_desc.ja)),
                                KV("params", JStr("{}")),
                                KV("nested_effects", JList(nested.items))>>)>>,
                      nested.warnings, nested.ctx)
       ELSE
       LET pick == PickLangId(prop_id, prop_data, ctx.prop_lang_subset, special_data, env, ctx)
       IN IF pick.lang_id = <<>>
          THEN Parsed(<<SearchFailed(prop_id, "")>>, pick.warning, pick.ctx)
          ELSE
          LET lang_id == pick.lang_id[1]
              search_context == JDict(DictSet(prop_data.kv, "maxLevel", JNum(main_max_level)))
              lang_params == PropertyParams(Placeholders(TemplateEn(env.lang_db, lang_id)),
                                 search_context, main_max_level,
                                 Contains(Lower(property_type), "modifier"), env, <<>>)
              main_desc == generate_description(lang_id, FormatParams(lang_params), env.lang_db)
              nested == IF HasKey(prop_data.kv, "statusEffects")
                        THEN parse_status_effects(Get(prop_data.kv, "statusEffects"),
                                                  special_data, env, pick.ctx)
                        ELSE Parsed(<<>>, <<>>, pick.ctx)
              extra_info == find_and_parse_extra_description(<<"specialproperty", "property">>,
                                property_type, search_context, lang_params, env, nested.ctx)
              result_item == <<KV("id", JStr(prop_id)), KV("lang_id", JStr(lang_id)),
                               KV("params", JStr(DumpParams(lang_params))),
                               KV("nested_effects", JList(nested.items))>>
                             \o TextFields(main_desc)
          IN Parsed(<<JDict(WithExtra(result_item, extra_info))>>,
                    pick.warning \o nested.warnings, nested.ctx)

PropertyLoop(el, special_data, main_max_level, env, acc) ==
    IF el = <<>> THEN acc
    ELSE PropertyLoop(Tail(el), special_data, main_max_level, env,
                      Extend(acc, PropertyItem(Head(el), special_data, main_max_level, env,
                                               acc.ctx)))

\* lines 301-359
def_parse_properties(properties_list, special_data, env, ctx) ==
    IF ~IsTruthy(properties_list) THEN Parsed(<<>>, <<>>, ctx)
    ELSE LET main_max_level == MaxLevelOf(special_data, 8)
         IN PropertyLoop(properties_list.el, special_data, main_max_level, env,
                         Parsed(<<>>, <<>>, [ctx EXCEPT !.main_max_level = <<main_max_level>>]))

-----------------------------------------------------------------------------
(* Phase 2: parse_familiars and _parse_familiar_effects *)

\* lines 412 and 462: the matcher on the primary candidates, or on all when there
\* is none, without a parent block
def_PickFamiliarLangId(data_block, primary_candidates, all_lang_ids, ctx) ==
    LET r == find_best_lang_id(data_block,
                 IF primary_candidates # <<>> THEN primary_candidates ELSE all_lang_ids,
                 ctx.familiar_debug_log, JNull)
    IN [lang_id |-> IF r.res.id = PyNone THEN <<>> ELSE <<r.res.id.s>>,
        warning |-> IF r.res.warning = PyNone THEN <<>> ELSE <<r.res.warning.s>>,
        ctx |-> [ctx EXCEPT !.familiar_debug_log = r.log]]

\* lines 468-470
def_FamiliarEffectParams(ps, context_block, main_max_level, env, acc) ==
    IF ps = <<>> THEN acc
    ELSE LET r == find_and_calculate_value(Head(ps), context_block, main_max_level,
                      env.hero_id, env.rules.hero_rules, FALSE, <<>>)
         IN FamiliarEffectParams(Tail(ps), context_block, main_max_level, env,
                IF r.value # PyNone THEN Append(acc, KV(Head(ps), r.value)) ELSE acc)

\* lines 458-479: one pass of the loop; an element that is no mapping has no get
FamiliarEffectItem(effect_data, familiar_instance, all_effect_lang_ids, env, ctx) ==
    IF effect_data.t # "dict" THEN Raised(ctx)
    ELSE IF ~IsTruthy(GetOr(effect_data, "id", JNull)) THEN Parsed(<<>>, <<>>, ctx)
    ELSE
    LET effect_id == StrOf(effect_data, "id")
        context_block == JDict(DictUpdate(familiar_instance.kv, effect_data.kv))
        main_max_level == MainMaxLevel(ctx)
        effect_type_keyword == StrOf(effect_data, "effectType")
        primary_candidates ==
            SelectSeq(all_effect_lang_ids,
                      LAMBDA k : \/ (effect_type_keyword # "" /\ Contains(k, effect_type_keyword))
                                 \/ Contains(k, effect_id))
        pick == PickFamiliarLangId(context_block, primary_candidates, all_effect_lang_ids, ctx)
    IN IF pick.lang_id = <<>>
       THEN Parsed(<<SearchFailed(effect_id, "familiar effect ")>>, pick.warning, pick.ctx)
       ELSE
       LET lang_id == pick.lang_id[1]
           search_context == JDict(DictSet(effect_data.kv, "maxLevel", JNum(main_max_level)))
           placeholders == Placeholders(TemplateEn(env.lang_db, lang_id))
           found == FamiliarEffectParams(placeholders, context_block, main_max_level, env, <<>>)
           lang_params ==
               IF /\ "FAMILIAREFFECTFREQUENCY" \in SeqRange(placeholders)
                  /\ HasKey(familiar_instance.kv, "turnsBetweenNonDamageEffects")
               THEN DictSet(found, "FAMILIAREFFECTFREQUENCY",
                            PyInt(NumField(familiar_instance, "turnsBetweenNonDamageEffects") + 1))
               ELSE found
           main_desc == generate_description(lang_id, FormatParams(lang_params), env.lang_db)
           extra_info == find_and_parse_extra_description(<<"familiareffect">>,
                             effect_type_keyword, search_context, lang_params, env, pick.ctx)
           result_item == <<KV("id", JStr(effect_id)), KV("lang_id", JStr(lang_id)),
                            KV("params", JStr(DumpParams(lang_params)))>>
                          \o TextFields(main_desc)
       IN After(found, Parsed(<<JDict(WithExtra(result_item, extra_info))>>,
                              pick.warning, pick.ctx))

RECURSIVE FamiliarEffectLoop(_, _, _, _, _)
\* the loop ends at the element that raises
FamiliarEffectLoop(el, familiar_instance, all_effect_lang_ids, env, acc) ==
    IF el = <<>> \/ acc.raised THEN acc
    ELSE FamiliarEffectLoop(Tail(el), familiar_instance, all_effect_lang_ids, env,
             Extend(acc, FamiliarEffectItem(Head(el), familiar_instance,
                                            all_effect_lang_ids, env, acc.ctx)))

\* lines 450-480
def_parse_familiar_effects(familiar_instance, env, ctx) ==
    LET effects_list == GetOr(familiar_instance, "effects", JList(<<>>))
        familiar_id == StrOf(familiar_instance, "id")
        all_effect_lang_ids ==
            SelectSeq(LangKeys(env.lang_db),
                      LAMBDA k : /\ Contains(k, familiar_id)
                                 /\ (StartsWith(k, "specials.v2.")
                                     \/ StartsWith(k, "familiar.statuseffect.")))
    IN IF ~IsTruthy(effects_list) THEN Parsed(<<>>, <<>>, ctx)
       ELSE FamiliarEffectLoop(effects_list.el, familiar_instance, all_effect_lang_ids, env,
                               Parsed(<<>>, <<>>, ctx))

\* lines 422-430: what the first effect with an attack percentage gives
def_FamiliarAttack(familiar_instance, main_max_level) ==
    LET effects == GetOr(familiar_instance, "effects", JList(<<>>))
        hits == IF effects.t = "list"
                THEN SelectSeq(effects.el, LAMBDA e : e.t = "dict"
                                                      /\ HasKey(e.kv, "attackPercentPerMil"))
                ELSE <<>>
    IN IF hits = <<>> THEN <<>>
       ELSE LET attack_val == NumField(hits[1], "attackPercentPerMil")
                inc_val_attack ==
                    IF Contains(LowerStrOf(familiar_instance, "familiarType"), "parasite")
                    THEN NumField(hits[1], "attackPercentIncrementPerLevelPerMil") ELSE 0
            IN <<[attack_val |-> attack_val, inc_val_attack |-> inc_val_attack,
                  calculated |-> attack_val + inc_val_attack * (main_max_level - 1)]>>

\* the derived health is logged as the raw one
ParameterLogEntryDerived(hero_id, familiar_id, health_val, health, attack) ==
    <<KV("hero_id", PyStr(hero_id)), KV("familiar_id", PyStr(familiar_id)),
      KV("raw_healthPerMil", PyInt(health)), KV("calculated_health", PyFloat(health))>>
    \o (IF attack = <<>> THEN <<KV("raw_attackPercentPerMil", PyStr("NOT_FOUND"))>>
        ELSE <<KV("raw_attackPercentPerMil", PyInt(attack[1].attack_val)),
               KV("raw_attackIncrement", PyInt(attack[1].inc_val_attack)),
               KV("calculated_attack", PyFloat(attack[1].calculated))>>)

\* lines 420-430: the entry of the familiar parameter log
ParameterLogEntry(hero_id, familiar_id, health_val, health, attack) ==
    <<KV("hero_id", PyStr(hero_id)), KV("familiar_id", PyStr(familiar_id)),
      KV("raw_healthPerMil", PyInt(health_val)), KV("calculated_health", PyFloat(health))>>
    \o (IF attack = <<>> THEN <<KV("raw_attackPercentPerMil", PyStr("NOT_FOUND"))>>
        ELSE <<KV("raw_attackPercentPerMil", PyInt(attack[1].attack_val)),
               KV("raw_attackIncrement", PyInt(attack[1].inc_val_attack)),
               KV("calculated_attack", PyFloat(attack[1].calculated))>>)

\* lines 432-434
def_FamiliarParams(ps, familiar_instance, main_max_level, env, acc) ==
    IF ps = <<>> THEN acc
    ELSE LET r == find_and_calculate_value(Head(ps), familiar_instance, main_max_level,
                      env.hero_id, env.rules.hero_rules, FALSE, <<"monster">>)
         IN FamiliarParams(Tail(ps), familiar_instance, main_max_level, env,
                IF HasKey(acc, Head(ps)) \/ r.value = PyNone THEN acc
                ELSE Append(acc, KV(Head(ps), r.value)))

\* lines 409-447: one pass of the loop; an element that is no mapping has no get
FamiliarItem(familiar_instance, special_data, all_familiar_lang_ids, env, ctx) ==
    IF familiar_instance.t # "dict" THEN Raised(ctx)
    ELSE IF ~IsTruthy(GetOr(familiar_instance, "id", JNull)) THEN Parsed(<<>>, <<>>, ctx)
    ELSE
    LET familiar_id == StrOf(familiar_instance, "id")
        main_max_level == MaxLevelOf(special_data, 8)
        primary_candidates == SelectSeq(all_familiar_lang_ids, LAMBDA k : Contains(k, familiar_id))
        pick == PickFamiliarLangId(familiar_instance, primary_candidates,
                                   all_familiar_lang_ids, ctx)
    IN IF pick.lang_id = <<>>
       THEN Parsed(<<JDict(<<KV("id", JStr(familiar_id)), KV("lang_id", JStr("SEARCH_FAILED")),
                             KV("description_en", JStr("Failed for familiar " \o familiar_id)),
                             KV("nested_effects", JList(<<>>))>>)>>,
                   pick.warning, pick.ctx)
       ELSE
       LET lang_id == pick.lang_id[1]
           search_context == JDict(DictSet(familiar_instance.kv, "maxLevel",
                                           JNum(main_max_level)))
           health_val == NumField(familiar_instance, "healthPerMil")
           health == health_val
                     + NumField(familiar_instance, "healthPerLevelPerMil") * (main_max_level - 1)
           attack == FamiliarAttack(familiar_instance, main_max_level)
           ctx2 == [pick.ctx EXCEPT !.familiar_parameter_log =
                       Append(@, ParameterLogEntry(env.hero_id, familiar_id, health_val,
                                                   health, attack))]
           lang_params ==
               FamiliarParams(Placeholders(TemplateEn(env.lang_db, lang_id)),
                              familiar_instance, main_max_level, env,
                              <<KV("FAMILIARHEALTHPERCENT", PyFloat(health))>>
                              \o (IF attack = <<>> THEN <<>>
                                  ELSE <<KV("FAMILIARATTACK", PyFloat(attack[1].calculated))>>))
           main_desc == generate_description(lang_id, FormatParams(lang_params), env.lang_db)
           nested == IF HasKey(familiar_instance.kv, "effects")
                     THEN parse_familiar_effects(familiar_instance, env, ctx2)
                     ELSE Parsed(<<>>, <<>>, ctx2)
           extra_info == find_and_parse_extra_description(<<"familiartype">>,
                             StrOf(familiar_instance, "familiarType"), search_context,
                             lang_params, env, nested.ctx)
           result_item == <<KV("id", JStr(familiar_id)), KV("lang_id", JStr(lang_id)),
                            KV("params", JStr(DumpParams(lang_params))),
                            KV("nested_effects", JList(nested.items)),
                            KV("description_en", JStr(StripWs(Replace(main_desc.en, "[*]", Bullet)))),
                            KV("description_ja", JStr(StripWs(Replace(main_desc.ja, "[*]", Bullet))))>>
       IN IF nested.raised THEN Raised(nested.ctx)
          ELSE Parsed(<<JDict(WithExtra(result_item, extra_info))>>,
                      pick.warning \o nested.warnings, nested.ctx)

RECURSIVE FamiliarLoop(_, _, _, _, _)
\* the loop ends at the element that raises
FamiliarLoop(el, special_data, all_familiar_lang_ids, env, acc) ==
    IF el = <<>> \/ acc.raised THEN acc
    ELSE FamiliarLoop(Tail(el), special_data, all_familiar_lang_ids, env,
             Extend(acc, FamiliarItem(Head(el), special_data, all_familiar_lang_ids, env,
                                      acc.ctx)))

\* lines 403-448
def_parse_familiars(familiars_list, special_data, env, ctx) ==
    IF ~IsTruthy(familiars_list) THEN Parsed(<<>>, <<>>, ctx)
    ELSE FamiliarLoop(familiars_list.el, special_data,
                      SelectSeq(LangKeys(env.lang_db), LAMBDA k : StartsWith(k, "specials.v2.")),
                      env, Parsed(<<>>, <<>>, ctx))

-----------------------------------------------------------------------------
(* Phase 2: parse_passive_skills *)

\* str.replace(old, new, 1)
def_ReplaceFirst(s, old, new) ==
    LET found == {i \in 1..(Len(s) - Len(old) + 1) : SubSeq(s, i, i + Len(old) - 1) = old}
    IN IF found = {} THEN s
       ELSE LET first == CHOOSE i \in found : \A j \in found : i <= j
            IN SubSeq(s, 1, first - 1) \o new \o SubSeq(s, first + Len(old), Len(s))

RECURSIVE MinByLen(_)
\* min(q, key=len) of a list that is not empty: the first of the shortest
MinByLen(q) ==
    IF Len(q) = 1 THEN q[1]
    ELSE LET m == MinByLen(Tail(q))
         IN IF Len(Head(q)) <= Len(m) THEN Head(q) ELSE m

\* lines 497 and 508: {kw for kw, depth in _collect_keywords_recursively(skill_data)}
def_skill_keywords(skill_data) ==
    LET all == collect_keywords_recursively(skill_data, 0)
    IN {all[i][1] : i \in 1..Len(all)}

\* lines 493-499: <<>> for None
def_TitleLangId(skill_data, skill_type, title_lang_subset) ==
    LET prefix == "herocard.passive_skill.title." \o skill_type
        title_candidates == SelectSeq(title_lang_subset, LAMBDA k : StartsWith(k, prefix))
        kws == skill_keywords(skill_data)
        title_scores ==
            [i \in 1..Len(title_candidates) |->
                [key |-> title_candidates[i],
                 score |-> Cardinality(kws \cap SeqRange(Split(title_candidates[i], ".")))]]
    IN IF title_candidates = <<>> THEN <<>> ELSE <<Sorted(title_scores)[1].key>>

\* lines 500-511: <<>> for None
def_DescLangId(skill_data, skill_type, title_lang_id, desc_lang_subset, lang_db) ==
    IF title_lang_id = <<>> THEN <<>>
    ELSE
    LET ideal_desc_id == ReplaceFirst(title_lang_id[1], ".title.", ".description.")
        prefix == "herocard.passive_skill.description." \o skill_type
        desc_candidates == SelectSeq(desc_lang_subset, LAMBDA k : StartsWith(k, prefix))
        kws == skill_keywords(skill_data)
        refined_candidates ==
            SelectSeq(desc_candidates, LAMBDA c : kws \cap SeqRange(Split(c, ".")) # {})
    IN IF HasKey(lang_db, ideal_desc_id) THEN <<ideal_desc_id>>
       ELSE IF desc_candidates = <<>> THEN <<>>
       ELSE IF refined_candidates # <<>> THEN <<MinByLen(refined_candidates)>>
       ELSE <<MinByLen(desc_candidates)>>

\* lines 516-521
def_PassiveParams(ps, search_context, main_max_level, env, acc) ==
    IF ps = <<>> THEN acc
    ELSE LET p_holder == Head(ps)
             r == find_and_calculate_value(p_holder, search_context, main_max_level,
                      env.hero_id, env.rules.hero_rules, FALSE, <<>>)
             found_key == IF r.src.k = "str" THEN r.src.s ELSE ""
             value == IF Upper(p_holder) = "DAMAGE" /\ Contains(Lower(found_key), "permil")
                      THEN PyInt(FloorDamage(r.value.n * (IF r.value.k = "int" THEN 10 ELSE 1),
                                             env.hero_stats.max_attack))
                      ELSE r.value
         IN PassiveParams(Tail(ps), search_context, main_max_level, env,
                IF r.value = PyNone THEN acc ELSE Append(acc, KV(p_holder, value)))

\* lines 490-528: one pass of the loop
PassiveItem(skill_data, title_lang_subset, desc_lang_subset, env, ctx) ==
    IF skill_data.t # "dict" THEN Parsed(<<>>, <<>>, ctx)
    ELSE
    LET skill_id == StrOf(skill_data, "id")
        skill_type == LowerStrOf(skill_data, "passiveSkillType")
        main_max_level == MainMaxLevel(ctx)
        title_lang_id == TitleLangId(skill_data, skill_type, title_lang_subset)
        desc_lang_id == DescLangId(skill_data, skill_type, title_lang_id, desc_lang_subset,
                                   env.lang_db)
    IN IF skill_id = "" \/ skill_type = "" THEN Parsed(<<>>, <<>>, ctx)
       ELSE IF title_lang_id # <<>> /\ desc_lang_id # <<>>
       THEN LET all_placeholders ==
                    Placeholders(TemplateEn(env.lang_db, title_lang_id[1])
                                 \o TemplateEn(env.lang_db, desc_lang_id[1]))
                search_context == JDict(DictSet(skill_data.kv, "maxLevel", JNum(main_max_level)))
                lang_params == PassiveParams(all_placeholders, search_context, main_max_level,
                                             env, <<>>)
                formatted_params == FormatParams(lang_params)
                title_texts == generate_description(title_lang_id[1], formatted_params, env.lang_db)
                desc_texts == generate_description(desc_lang_id[1], formatted_params, env.lang_db)
            IN Parsed(<<JDict(<<KV("id", JStr(skill_id)),
                                KV("title_en", JStr(title_texts.en)),
                                KV("title_ja", JStr(title_texts.ja)),
                                KV("description_en", JStr(desc_texts.en)),
                                KV("description_ja", JStr(desc_texts.ja)),
                                KV("params", JStr(DumpParams(lang_params)))>>)>>,
                      <<>>, ctx)
       ELSE Parsed(<<JDict(<<KV("id", JStr(skill_id)),
                             KV("title_en", JStr("FAILED: " \o skill_id)),
                             KV("description_en", JStr("lang_id resolution failed."))>>)>>,
                   <<"Could not resolve passive lang_ids for skill '" \o skill_id \o "'">>, ctx)

RECURSIVE PassiveLoop(_, _, _, _, _)
PassiveLoop(el, title_lang_subset, desc_lang_subset, env, acc) ==
    IF el = <<>> THEN acc
    ELSE PassiveLoop(Tail(el), title_lang_subset, desc_lang_subset, env,
             Extend(acc, PassiveItem(Head(el), title_lang_subset, desc_lang_subset, env,
                                     acc.ctx)))

\* lines 482-529
def_parse_passive_skills(passive_skills_list, env, ctx) ==
    IF ~IsTruthy(passive_skills_list) THEN Parsed(<<>>, <<>>, ctx)
    ELSE PassiveLoop(passive_skills_list.el,
             SelectSeq(LangKeys(env.lang_db),
                       LAMBDA k : StartsWith(k, "herocard.passive_skill.title.")),
             SelectSeq(LangKeys(env.lang_db),
                       LAMBDA k : StartsWith(k, "herocard.passive_skill.description.")),
             env, Parsed(<<>>, <<>>, ctx))

-----------------------------------------------------------------------------
(* Phase 2: phase_two_parse_skills and analyze_unresolved_placeholders, as main *)
(* calls them                                                                   *)

\* the localization table of the runs: language_db of main, the Japanese texts
\* written in ASCII
LangDb ==
    <<KV("specials.v2.directeffect.damage",
         Texts("Deals {HEALTH}% damage",
               "{HEALTH}% no damage")),
      KV("specials.v2.clearbuffs.buffs.all.enemies",
         Texts("Dispels buffs",
               "buffs wo kesu")),
      KV("specials.v2.property.extradamage",
         Texts("Extra {POWER}% damage {QQ}",
               "tsuika {POWER}% {QQ}")),
      KV("specials.v2.property.chargedspecial.2",
         Texts("Charged special",
               "chaaji")),
      KV("specials.v2.statuseffect.attackup",
         Texts("Attack up for {TURNS} turns",
               "{TURNS} taan kougeki")),
      KV("specials.v2.statuseffect.attackup.extra",
         Texts("[*]Stacks {QQ}",
               "[*]kasanaru {QQ}")),
      KV("specials.v2.minion.fam_ax",
         Texts("Summons a minion with {FAMILIARHEALTHPERCENT}% HP and {FAMILIARATTACK}% attack",
               "minion {FAMILIARHEALTHPERCENT}% {FAMILIARATTACK}%")),
      KV("familiar.statuseffect.fam_ax.fe_a",
         Texts("The minion hits every {FAMILIAREFFECTFREQUENCY} turns",
               "{FAMILIAREFFECTFREQUENCY} taan goto")),
      KV("familiar.statuseffect.fam_ax.xfe_bad",
         Texts("never used",
               "never used")),
      KV("herocard.passive_skill.title.resist",
         Texts("Resist {QQ}",
               "teikou {QQ}")),
      KV("herocard.passive_skill.description.resist",
         Texts("{CHANCE}% chance to resist",
               "{CHANCE}% de teikou"))>>

\* the resolved trees of debug_hero_data.json the runs draw from, one per case of
\* the parsers, by hero id
HeroTree(hero_id) ==
    IF hero_id = "h_min" THEN
        JDict(<<KV("id", JStr("h_min")), KV("specialId_details", JDict(<<KV("id",
            JStr("sp_min")), KV("maxLevel", JNum(8)), KV("directEffect",
            JDict(<<KV("effectType", JStr("Damage")), KV("powerMultiplierPerMil",
            JNum(1500))>>))>>))>>)
    ELSE IF hero_id = "h_lvl" THEN
        JDict(<<KV("id", JStr("h_lvl")), KV("specialId_details", JDict(<<KV("id",
            JStr("sp_lvl")), KV("maxLevel", JNum(5)), KV("directEffect",
            JDict(<<KV("effectType", JStr("Damage")), KV("powerMultiplierPerMil",
            JNum(2000))>>)), KV("buffToRemove", JStr("Buffs")), KV("properties",
            JList(<<JDict(<<KV("id", JStr("prop_a")), KV("propertyType",
            JStr("ExtraDamage")), KV("powerPerMil", JNum(300))>>)>>))>>))>>)
    ELSE IF hero_id = "h_carry" THEN
        JDict(<<KV("id", JStr("h_carry")), KV("specialId_details", JDict(<<KV("id",
            JStr("sp_carry")), KV("directEffect", JDict(<<KV("effectType", JStr("Damage")),
            KV("powerMultiplierPerMil", JNum(1000)),
            KV("powerMultiplierIncrementPerLevelPerMil", JNum(100))>>))>>)),
            KV("passiveSkills", JList(<<JDict(<<KV("id", JStr("ps_a")),
            KV("passiveSkillType", JStr("Resist")), KV("chancePerMil", JNum(200)),
            KV("chancePerLevelPerMil", JNum(50))>>)>>))>>)
    ELSE IF hero_id = "h_se" THEN
        JDict(<<KV("id", JStr("h_se")), KV("specialId_details", JDict(<<KV("id",
            JStr("sp_se")), KV("maxLevel", JNum(8)), KV("statusEffects",
            JList(<<JDict(<<KV("id", JStr("se_bad")), KV("statusEffect",
            JStr("Mystery"))>>), JDict(<<KV("id", JStr("se_ok")), KV("statusEffect",
            JStr("AttackUp")), KV("turns", JNum(3))>>), JDict(<<KV("id", JStr("se_bad")),
            KV("statusEffect", JStr("Mystery"))>>), JStr("se_unknown")>>))>>))>>)
    ELSE IF hero_id = "h_fam" THEN
        JDict(<<KV("id", JStr("h_fam")), KV("specialId_details", JDict(<<KV("id",
            JStr("sp_fam")), KV("maxLevel", JNum(8)), KV("summonedFamiliars",
            JList(<<JDict(<<KV("id", JStr("fam_bad")), KV("familiarType", JStr("Odd"))>>),
            JDict(<<KV("id", JStr("fam_a")), KV("familiarType", JStr("Minion")),
            KV("healthPerMil", JNum(100)), KV("healthPerLevelPerMil", JNum(10)),
            KV("turnsBetweenNonDamageEffects", JNum(2)), KV("effects",
            JList(<<JDict(<<KV("id", JStr("fe_bad")), KV("attackPercentPerMil",
            JNum(150))>>), JDict(<<KV("id", JStr("fe_a"))>>)>>))>>)>>))>>))>>)
    ELSE IF hero_id = "h_str" THEN
        JDict(<<KV("id", JStr("h_str")), KV("specialId_details", JDict(<<KV("id",
            JStr("sp_str")), KV("maxLevel", JNum(8)), KV("directEffect",
            JDict(<<KV("effectType", JStr("Damage")), KV("powerMultiplierPerMil",
            JNum(1200))>>)), KV("summonedFamiliars", JList(<<JStr("unknown_fam")>>))>>))>>)
    ELSE IF hero_id = "h_fxs" THEN
        JDict(<<KV("id", JStr("h_fxs")), KV("specialId_details", JDict(<<KV("id",
            JStr("sp_fxs")), KV("maxLevel", JNum(8)), KV("summonedFamiliars",
            JList(<<JDict(<<KV("id", JStr("fam_a")), KV("familiarType", JStr("Minion")),
            KV("healthPerMil", JNum(100)), KV("effects",
            JList(<<JStr("unknown_fx")>>))>>)>>))>>))>>)
    ELSE IF hero_id = "h_heal" THEN
        JDict(<<KV("id", JStr("h_heal")), KV("specialId_details", JDict(<<KV("id",
            JStr("sp_heal")), KV("maxLevel", JNum(8)), KV("directEffect",
            JDict(<<KV("effectType", JStr("Heal")), KV("powerMultiplierPerMil",
            JNum(400))>>))>>))>>)
    ELSE IF hero_id = "h_debuff" THEN
        JDict(<<KV("id", JStr("h_debuff")), KV("specialId_details", JDict(<<KV("id",
            JStr("sp_debuff")), KV("maxLevel", JNum(8)), KV("directEffect",
            JDict(<<KV("effectType", JStr("Damage")), KV("powerMultiplierPerMil",
            JNum(1100))>>)), KV("buffToRemove", JStr("Debuffs")),
            KV("buffToRemoveSideAffected", JStr("Enemies"))>>))>>)
    ELSE IF hero_id = "h_pas" THEN
        JDict(<<KV("id", JStr("h_pas")), KV("passiveSkills", JList(<<JDict(<<KV("id",
            JStr("ps_x")), KV("passiveSkillType", JStr("Unknown"))>>)>>)),
            KV("costumeBonusesId_details", JDict(<<KV("passiveSkills",
            JList(<<JDict(<<KV("id", JStr("ps_b")), KV("passiveSkillType", JStr("Resist")),
            KV("chancePerMil", JNum(100)), KV("chancePerLevelPerMil",
            JNum(20))>>)>>))>>))>>)
    ELSE
        JDict(<<KV("id", JStr("h_mag")), KV("manaSpeedId", JStr("charge_magic")),
            KV("specialId_details", JDict(<<KV("id", JStr("sp_mag")), KV("maxLevel",
            JNum(8)), KV("properties", JList(<<JDict(<<KV("id", JStr("prop_c")),
            KV("propertyType", JStr("ChargedSpecial")), KV("specialIds",
            JList(<<JDict(<<KV("id", JStr("sub1")), KV("maxLevel", JNum(3)),
            KV("directEffect", JDict(<<KV("effectType", JStr("Damage")),
            KV("powerMultiplierPerMil", JNum(900))>>)), KV("properties",
            JList(<<JDict(<<KV("id", JStr("prop_b")), KV("propertyType",
            JStr("Nothing"))>>)>>))>>)>>))>>)>>))>>))>>)

TreeIds == {"h_min", "h_lvl", "h_carry", "h_se", "h_fam", "h_str", "h_fxs", "h_heal", "h_debuff", "h_pas", "h_mag"}

\* the largest number of heroes of debug_data
MaxHeroes == 2

\* hero_stats_db of load_hero_stats_from_csv: its entries hold id, attack, defense,
\* health and power, so that max_attack is 0 and the name "N/A" for every hero
HeroStatsDb ==
    <<KV("h_min", <<KV("id", "h_min"), KV("attack", "700"), KV("defense", "700"),
                    KV("health", "1300"), KV("power", "800")>>)>>

\* rules of load_rules_from_csvs without a row
PhaseRules ==
    [hero_rules |-> [specific |-> <<>>, common |-> <<>>],
     lang_overrides |-> [specific |-> <<>>, common |-> <<>>]]

\* a row of exception_lang_rules.csv
LangRow(hero_id, skill_id, lang_id) ==
    [hero_id |-> hero_id, skill_id |-> skill_id, lang_id |-> lang_id]

\* hero_data_loader lines 63-76: a row without skill id or template id is skipped, a
\* row with a hero id is a specific rule, any other a common rule
def_AddLangRule(rs, row) ==
    LET hero_id == Strip(row.hero_id)
        skill_id == Strip(row.skill_id)
        lang_id == Strip(row.lang_id)
    IN IF skill_id = "" \/ lang_id = "" THEN rs
       ELSE IF hero_id # ""
       THEN [rs EXCEPT !.specific =
               FunSet(@, hero_id,
                      FunSet(IF hero_id \in DOMAIN @ THEN @[hero_id] ELSE <<>>,
                             skill_id, lang_id))]
       ELSE [rs EXCEPT !.common = FunSet(@, skill_id, lang_id)]

\* the loop of line 63 over the rows of the file
def_LoadLangRules(rs, rows) ==
    IF rows = <<>> THEN rs ELSE LoadLangRules(AddLangRule(rs, Head(rows)), Tail(rows))

\* the loop of line 90 over the rows of the file
def_LoadHeroRules(rs, rows) ==
    IF rows = <<>> THEN rs ELSE LoadHeroRules(AddRule(rs, Head(rows)), Tail(rows))

\* hero_data_loader lines 42-109, on the rows of the two files
def_load_rules_from_csvs(lang_rows, hero_rows) ==
    [lang_overrides |-> LoadLangRules(PhaseRules.lang_overrides, lang_rows),
     hero_rules |-> LoadHeroRules(PhaseRules.hero_rules, hero_rows)]

\* common rows: a template for the property of h_lvl, for the container property
\* of h_mag, for both status effects of h_se, and for a familiar and a familiar
\* effect of h_fam; a fixed number of turns and a fixed power
CommonLangRows ==
    <<LangRow("", "prop_a", "specials.v2.statuseffect.attackup"),
      LangRow("", "prop_c", "specials.v2.property.extradamage"),
      LangRow("", "se_ok", "specials.v2.property.extradamage"),
      LangRow("", "se_bad", "specials.v2.statuseffect.attackup"),
      LangRow("", "fam_a", "specials.v2.property.extradamage"),
      LangRow("", " fe_a ", "specials.v2.property.extradamage"),
      LangRow("", "prop_b", "")>>
CommonHeroRows == <<Row("", "Turns", "fixed", "9", ""), Row("", "POWER", "fixed", "5", "")>>

\* rows of a hero: another template for prop_a of h_lvl and for se_bad of h_se, and
\* another fixed number of turns and another fixed power for h_se
SpecificLangRows ==
    <<LangRow("h_lvl", "prop_a", "specials.v2.directeffect.damage"),
      LangRow("h_se", "se_bad", "specials.v2.directeffect.damage"),
      LangRow("h_pas", "prop_a", "specials.v2.property.chargedspecial.2")>>
SpecificHeroRows ==
    <<Row("h_se", "TURNS", "fixed", "7", ""), Row("h_se", "POWER", "fixed", "6", "")>>

\* the pairs of rule files the runs draw from
RuleFiles ==
    {<<<<>>, <<>>>>,
     <<CommonLangRows, CommonHeroRows>>,
     <<SpecificLangRows, SpecificHeroRows>>,
     <<CommonLangRows \o SpecificLangRows, CommonHeroRows \o SpecificHeroRows>>}

\* rule files with rows are run with hero lists of at most this many heroes
MaxRuledHeroes == 1

\* what the parsers of a hero are called with
HeroEnv(hero_id) ==
    Env(get_hero_final_stats(hero_id, HeroStatsDb), LangDb, <<>>, hero_id, p_rules)

\* the hero of the loop, its tree and its special
CurId == p_order[p_i]
CurTree == HeroTree(CurId)
CurSpecial == GetOr(CurTree, "specialId_details", JNull)

\* every new warning is appended, whether the set holds it or not
collect_warningsAll(new_warnings, ctx) ==
    [ctx EXCEPT !.unique_warnings_set = @ \cup SeqRange(new_warnings),
                !.warnings_list = @ \o new_warnings]

RECURSIVE collect_warnings(_, _)
\* lines 300-305
collect_warnings(new_warnings, ctx) ==
    IF new_warnings = <<>> THEN ctx
    ELSE LET w == Head(new_warnings)
         IN collect_warnings(Tail(new_warnings),
                IF w \notin ctx.unique_warnings_set
                THEN [ctx EXCEPT !.unique_warnings_set = @ \cup {w},
                                 !.warnings_list = Append(@, w)]
                ELSE ctx)

\* what a parser returned, as the loop keeps it
Returned(items, warnings) == [items |-> items, warnings |-> warnings]

\* the hero lists of at most MaxHeroes heroes: nothing keeps two heroes of
\* characters.json from having the same id
HeroLists == UNION {[1..n -> TreeIds] : n \in 1..MaxHeroes}

\* a list of debug data with one element per hero of the list
KeysAppended(ids) == ids

\* the keys of a dict assigned once per element of ids, in the order of ids
KeysAssigned(ids) ==
    LET firsts == {i \in 1..Len(ids) : \A j \in 1..(i - 1) : ids[j] # ids[i]}
    IN [k \in 1..Cardinality(firsts) |->
           ids[CHOOSE i \in firsts : Cardinality({m \in firsts : m < i}) = k - 1]]

PInit ==
    /\ p_input \in HeroLists
    /\ \E f \in RuleFiles :
          /\ f = <<<<>>, <<>>>> \/ Len(p_input) <= MaxRuledHeroes
          /\ p_rules = load_rules_from_csvs(f[1], f[2])
    /\ p_order = <<>>
    /\ p_run = 1 /\ p_i = 0 /\ p_pc = "phase1"
    /\ p_ctx = Parsers(LangDb)
    /\ p_skill = <<>> /\ p_last = Returned(<<>>, <<>>)
    /\ p_out = <<>> /\ p_first = <<>> /\ p_report = <<>>
    /\ ROff /\ VOff /\ MOff /\ GOff

\* phase_one_integrate_data, lines 263-272, and main's reload of the file it writes:
\* all_heroes_debug_data[hero_id] = full_hero_data for every hero of the list
Integrate ==
    /\ p_pc = "phase1"
    /\ p_order' = KeysAssigned(p_input)
    /\ p_pc' = "call"
    /\ UNCHANGED <<p_input, p_rules, p_run, p_i, p_ctx, p_skill, p_last, p_out, p_first, p_report>>
    /\ UNCHANGED <<rvars, vvars, mvars, gvars>>

\* lines 280-288: the collectors are created anew; nothing else of parsers is
BeginRun ==
    /\ p_pc = "call"
    /\ p_ctx' = [p_ctx EXCEPT !.warnings_list = <<>>, !.unique_warnings_set = {},
                              !.familiar_debug_log = <<>>, !.familiar_parameter_log = <<>>]
    /\ p_out' = <<>> /\ p_i' = 1 /\ p_pc' = "hero"
    /\ p_skill' = <<>> /\ p_last' = Returned(<<>>, <<>>)
    /\ UNCHANGED <<p_input, p_order, p_rules, p_run, p_first, p_report>>
    /\ UNCHANGED <<rvars, vvars, mvars, gvars>>

\* lines 289-311: the head of the loop body, up to the direct effect of a hero
\* that has a special
DirectEffect ==
    /\ p_pc = "hero" /\ p_i <= Len(p_order)
    /\ \E full_hero_data \in {CurTree} :
          IF IsTruthy(GetOr(full_hero_data, "specialId_details", JNull))
          THEN \E ctx \in {[p_ctx EXCEPT !.hero_mana_speed_id =
                                            PyOf(GetOr(full_hero_data, "manaSpeedId", JNull))]} :
               \E item \in {parse_direct_effect(
                                 GetOr(full_hero_data, "specialId_details", JNull),
                                 LangDb, ctx)} :
                  /\ p_ctx' = ctx
                  /\ p_skill' = <<KV("directEffect", item)>>
                  /\ p_last' = Returned(<<item>>, <<>>)
                  /\ p_pc' = "clear_buffs"
          ELSE /\ p_skill' = <<>> /\ p_last' = Returned(<<>>, <<>>)
               /\ p_pc' = "passives"
               /\ UNCHANGED p_ctx
    /\ UNCHANGED <<p_input, p_order, p_rules, p_run, p_i, p_out, p_first, p_report>>
    /\ UNCHANGED <<rvars, vvars, mvars, gvars>>

\* lines 313-315; None is kept as JNull
ClearBuffs ==
    /\ p_pc = "clear_buffs"
    /\ \E parsed_clear_buffs \in {parse_clear_buffs(CurSpecial, LangDb)} :
          /\ p_skill' = Append(p_skill, KV("clear_buffs",
                               IF parsed_clear_buffs = <<>> THEN JNull
                               ELSE parsed_clear_buffs[1]))
          /\ p_last' = Returned(parsed_clear_buffs, <<>>)
          /\ p_ctx' = collect_warnings(<<>>, p_ctx)
    /\ p_pc' = "properties"
    /\ UNCHANGED <<p_input, p_order, p_rules, p_run, p_i, p_out, p_first, p_report>>
    /\ UNCHANGED <<rvars, vvars, mvars, gvars>>

\* lines 317-320
Properties ==
    /\ p_pc = "properties"
    /\ \E special_data \in {CurSpecial} :
       \E r \in {parse_properties(GetOr(special_data, "properties", JList(<<>>)),
                                  special_data, HeroEnv(CurId), p_ctx)} :
          /\ p_skill' = Append(p_skill, KV("properties", JList(r.items)))
          /\ p_last' = Returned(r.items, r.warnings)
          /\ p_ctx' = collect_warnings(r.warnings, r.ctx)
    /\ p_pc' = "status_effects"
    /\ UNCHANGED <<p_input, p_order, p_rules, p_run, p_i, p_out, p_first, p_report>>
    /\ UNCHANGED <<rvars, vvars, mvars, gvars>>

\* lines 322-325
StatusEffects ==
    /\ p_pc = "status_effects"
    /\ \E special_data \in {CurSpecial} :
       \E r \in {parse_status_effects(GetOr(special_data, "statusEffects", JList(<<>>)),
                                      special_data, HeroEnv(CurId), p_ctx)} :
          /\ p_skill' = Append(p_skill, KV("statusEffects", JList(r.items)))
          /\ p_last' = Returned(r.items, r.warnings)
          /\ p_ctx' = collect_warnings(r.warnings, r.ctx)
    /\ p_pc' = "familiars"
    /\ UNCHANGED <<p_input, p_order, p_rules, p_run, p_i, p_out, p_first, p_report>>
    /\ UNCHANGED <<rvars, vvars, mvars, gvars>>

\* lines 327-330; what the parser raises leaves phase_two_parse_skills and main's
\* try block (line 435): nothing is written and nothing analyzed
Familiars ==
    /\ p_pc = "familiars"
    /\ \E special_data \in {CurSpecial} :
       \E r \in {parse_familiars(GetOr(special_data, "summonedFamiliars", JList(<<>>)),
                                 special_data, HeroEnv(CurId), p_ctx)} :
          IF r.raised
          THEN /\ p_ctx' = r.ctx /\ p_pc' = "fatal"
               /\ UNCHANGED <<p_skill, p_last>>
          ELSE /\ p_skill' = Append(p_skill, KV("familiars", JList(r.items)))
               /\ p_last' = Returned(r.items, r.warnings)
               /\ p_ctx' = collect_warnings(r.warnings, r.ctx)
               /\ p_pc' = "passives"
    /\ UNCHANGED <<p_input, p_order, p_rules, p_run, p_i, p_out, p_first, p_report>>
    /\ UNCHANGED <<rvars, vvars, mvars, gvars>>

\* lines 332-337
all_passives(full_hero_data) ==
    LET passive_list == GetOr(full_hero_data, "passiveSkills", JList(<<>>))
        costume_bonuses == GetOr(full_hero_data, "costumeBonusesId_details", JNull)
        costume_passive_list ==
            IF IsTruthy(costume_bonuses) /\ costume_bonuses.t = "dict"
            THEN GetOr(costume_bonuses, "passiveSkills", JList(<<>>)) ELSE JList(<<>>)
    IN JList(passive_list.el \o costume_passive_list.el)

\* lines 332-343
Passives ==
    /\ p_pc = "passives"
    /\ \E passives \in {all_passives(CurTree)} :
          IF IsTruthy(passives)
          THEN \E r \in {parse_passive_skills(passives, HeroEnv(CurId), p_ctx)} :
                  /\ p_skill' = Append(p_skill, KV("passiveSkills", JList(r.items)))
                  /\ p_last' = Returned(r.items, r.warnings)
                  /\ p_ctx' = collect_warnings(r.warnings, r.ctx)
          ELSE UNCHANGED <<p_skill, p_last, p_ctx>>
    /\ p_pc' = "append"
    /\ UNCHANGED <<p_input, p_order, p_rules, p_run, p_i, p_out, p_first, p_report>>
    /\ UNCHANGED <<rvars, vvars, mvars, gvars>>

\* the record of the hero with every category, the empty ones too
ProcessedHeroAll(hero_id, skill_descriptions) ==
    [id |-> hero_id, name |-> get_hero_final_stats(hero_id, HeroStatsDb).name,
     skillDescriptions |-> skill_descriptions]

\* lines 291-293 and 345-347: the record of the hero, with the categories that are
\* not empty
ProcessedHero(hero_id, skill_descriptions) ==
    [id |-> hero_id, name |-> get_hero_final_stats(hero_id, HeroStatsDb).name,
     skillDescriptions |-> SelectSeq(skill_descriptions, LAMBDA e : IsTruthy(e.v))]

AppendHero ==
    /\ p_pc = "append"
    /\ p_out' = Append(p_out, ProcessedHero(CurId, p_skill))
    /\ p_i' = p_i + 1 /\ p_pc' = "hero"
    /\ UNCHANGED <<p_input, p_order, p_rules, p_run, p_ctx, p_skill, p_last, p_first, p_report>>
    /\ UNCHANGED <<rvars, vvars, mvars, gvars>>

\* line 350
ReturnHeroes ==
    /\ p_pc = "hero" /\ p_i > Len(p_order)
    /\ p_pc' = "returned"
    /\ UNCHANGED <<p_input, p_order, p_rules, p_run, p_i, p_ctx, p_skill, p_last, p_out, p_first, p_report>>
    /\ UNCHANGED <<rvars, vvars, mvars, gvars>>

RECURSIVE ItemsToCheck(_)
\* lines 362-370: the items, and below each the items of its nested_effects
ItemsToCheck(items) ==
    IF items = <<>> THEN <<>>
    ELSE LET item == Head(items)
             nested == IF item.t = "dict" /\ HasKey(item.kv, "nested_effects")
                          /\ Get(item.kv, "nested_effects").t = "list"
                       THEN Get(item.kv, "nested_effects").el ELSE <<>>
         IN <<item>> \o ItemsToCheck(nested) \o ItemsToCheck(Tail(items))

\* line 372: the keys whose texts are read
def_CheckedKey(key) ==
    Contains(key, "description") \/ Contains(key, "tooltip") \/ key \in {"en", "ja"}

RECURSIVE Flat(_)
\* the members of the sequences of a sequence
Flat(qq) == IF qq = <<>> THEN <<>> ELSE Head(qq) \o Flat(Tail(qq))

\* lines 371-374: the tokens found in the texts of an item
def_ItemTokens(item) ==
    IF item.t # "dict" THEN <<>>
    ELSE Flat([i \in 1..Len(item.kv) |->
                  IF item.kv[i].v.t = "str" /\ CheckedKey(item.kv[i].k)
                  THEN FindTokens(item.kv[i].v.s, 1) ELSE <<>>])

\* lines 356-361: the values of skillDescriptions, a list by its members
def_HeroItems(hero) ==
    Flat([i \in 1..Len(hero.skillDescriptions) |->
             LET skill_data == hero.skillDescriptions[i].v
             IN IF skill_data.t = "list" THEN skill_data.el
                ELSE IF skill_data.t = "dict" THEN <<skill_data>> ELSE <<>>])

\* lines 352-374: unresolved_counter, the count of each token found
def_analyze_unresolved_placeholders(final_hero_data) ==
    LET found == Flat([h \in 1..Len(final_hero_data) |->
                          LET items == ItemsToCheck(HeroItems(final_hero_data[h]))
                          IN Flat([i \in 1..Len(items) |-> ItemTokens(items[i])])])
    IN [t \in SeqRange(found) |-> Cardinality({i \in 1..Len(found) : found[i] = t})]

\* the call of f on the arguments a: the body of the function named f
Invoke(f, a) ==
    CASE f = "LowerChar" ->
             def_LowerChar(a[1])
      [] f = "UpperChar" ->
             def_UpperChar(a[1])
      [] f = "DictSet" ->
             def_DictSet(a[1], a[2], a[3])
      [] f = "DictUpdate" ->
             def_DictUpdate(a[1], a[2])
      [] f = "Strip" ->
             def_Strip(a[1])
      [] f = "IsLowerStr" ->
             def_IsLowerStr(a[1])
      [] f = "FlattenDict" ->
             def_FlattenDict(a[1], a[2])
      [] f = "flatten_json" ->
             def_flatten_json(a[1])
      [] f = "StripRow" ->
             def_StripRow(a[1])
      [] f = "AddRule" ->
             def_AddRule(a[1], a[2])
      [] f = "IsIntLiteral" ->
             def_IsIntLiteral(a[1])
      [] f = "IsFloatLiteral" ->
             def_IsFloatLiteral(a[1])
      [] f = "DropIgnored" ->
             def_DropIgnored(a[1], a[2])
      [] f = "ph_keywords" ->
             def_ph_keywords(a[1])
      [] f = "Candidates" ->
             def_Candidates(a[1], a[2])
      [] f = "Sorted" ->
             def_Sorted(a[1])
      [] f = "IncKey" ->
             def_IncKey(a[1], a[2])
      [] f = "IncVal" ->
             def_IncVal(a[1], a[2])
      [] f = "Convert" ->
             def_Convert(a[1], a[2], a[3], a[4], a[5])
      [] f = "find_and_calculate_value" ->
             def_find_and_calculate_value(a[1], a[2], a[3], a[4], a[5], a[6], a[7])
      [] f = "LowerStrOf" ->
             def_LowerStrOf(a[1], a[2])
      [] f = "StrOf" ->
             def_StrOf(a[1], a[2])
      [] f = "ConstructedId" ->
             def_ConstructedId(a[1], a[2])
      [] f = "LangScore" ->
             def_LangScore(a[1], a[2], a[3])
      [] f = "potential_matches" ->
             def_potential_matches(a[1], a[2], a[3])
      [] f = "SortMatches" ->
             def_SortMatches(a[1])
      [] f = "NoLangId" ->
             def_NoLangId(a[1])
      [] f = "DebugEntry" ->
             def_DebugEntry(a[1], a[2])
      [] f = "find_best_lang_id" ->
             def_find_best_lang_id(a[1], a[2], a[3], a[4])
      [] f = "IntStr" ->
             def_IntStr(a[1])
      [] f = "TenthsStr" ->
             def_TenthsStr(a[1])
      [] f = "format_value" ->
             def_format_value(a[1])
      [] f = "PyStrOf" ->
             def_PyStrOf(a[1])
      [] f = "FormatParams" ->
             def_FormatParams(a[1])
      [] f = "generate_description" ->
             def_generate_description(a[1], a[2], a[3])
      [] f = "NumField" ->
             def_NumField(a[1], a[2])
      [] f = "IsWordChar" ->
             def_IsWordChar(a[1])
      [] f = "WordRun" ->
             def_WordRun(a[1], a[2])
      [] f = "Placeholders" ->
             def_Placeholders(a[1])
      [] f = "DumpValue" ->
             def_DumpValue(a[1])
      [] f = "DumpParams" ->
             def_DumpParams(a[1])
      [] f = "MaxLevelOf" ->
             def_MaxLevelOf(a[1], a[2])
      [] f = "DirectLangId" ->
             def_DirectLangId(a[1])
      [] f = "DirectParams" ->
             def_DirectParams(a[1], a[2], a[3])
      [] f = "parse_direct_effect" ->
             def_parse_direct_effect(a[1], a[2], a[3])
      [] f = "ClearBuffsLangId" ->
             def_ClearBuffsLangId(a[1])
      [] f = "parse_clear_buffs" ->
             def_parse_clear_buffs(a[1], a[2])
      [] f = "BulletText" ->
             def_BulletText(a[1])
      [] f = "ExtraLangId" ->
             def_ExtraLangId(a[1], a[2], a[3])
      [] f = "ExtraParams" ->
             def_ExtraParams(a[1], a[2], a[3], a[4], a[5])
      [] f = "find_and_parse_extra_description" ->
             def_find_and_parse_extra_description(a[1], a[2], a[3], a[4], a[5], a[6])
      [] f = "PickLangId" ->
             def_PickLangId(a[1], a[2], a[3], a[4], a[5], a[6])
      [] f = "StatusParams" ->
             def_StatusParams(a[1], a[2], a[3], a[4], a[5], a[6], a[7])
      [] f = "parse_status_effects" ->
             def_parse_status_effects(a[1], a[2], a[3], a[4])
      [] f = "container_headings" ->
             def_container_headings(a[1])
      [] f = "Heading" ->
             def_Heading(a[1], a[2])
      [] f = "PropertyParams" ->
             def_PropertyParams(a[1], a[2], a[3], a[4], a[5], a[6])
      [] f = "parse_properties" ->
             def_parse_properties(a[1], a[2], a[3], a[4])
      [] f = "PickFamiliarLangId" ->
             def_PickFamiliarLangId(a[1], a[2], a[3], a[4])
      [] f = "FamiliarEffectParams" ->
             def_FamiliarEffectParams(a[1], a[2], a[3], a[4], a[5])
      [] f = "parse_familiar_effects" ->
             def_parse_familiar_effects(a[1], a[2], a[3])
      [] f = "FamiliarAttack" ->
             def_FamiliarAttack(a[1], a[2])
      [] f = "FamiliarParams" ->
             def_FamiliarParams(a[1], a[2], a[3], a[4], a[5])
      [] f = "parse_familiars" ->
             def_parse_familiars(a[1], a[2], a[3], a[4])
      [] f = "ReplaceFirst" ->
             def_ReplaceFirst(a[1], a[2], a[3])
      [] f = "skill_keywords" ->
             def_skill_keywords(a[1])
      [] f = "TitleLangId" ->
             def_TitleLangId(a[1], a[2], a[3])
      [] f = "DescLangId" ->
             def_DescLangId(a[1], a[2], a[3], a[4], a[5])
      [] f = "PassiveParams" ->
             def_PassiveParams(a[1], a[2], a[3], a[4], a[5])
      [] f = "parse_passive_skills" ->
             def_parse_passive_skills(a[1], a[2], a[3])
      [] f = "AddLangRule" ->
             def_AddLangRule(a[1], a[2])
      [] f = "LoadLangRules" ->
             def_LoadLangRules(a[1], a[2])
      [] f = "LoadHeroRules" ->
             def_LoadHeroRules(a[1], a[2])
      [] f = "load_rules_from_csvs" ->
             def_load_rules_from_csvs(a[1], a[2])
      [] f = "CheckedKey" ->
             def_CheckedKey(a[1])
      [] f = "ItemTokens" ->
             def_ItemTokens(a[1])
      [] f = "HeroItems" ->
             def_HeroItems(a[1])
      [] f = "analyze_unresolved_placeholders" ->
             def_analyze_unresolved_placeholders(a[1])

\* main, lines 411-432: the output is written and the leftover tokens are counted
Analyze ==
    /\ p_pc = "returned"
    /\ p_report' = analyze_unresolved_placeholders(p_out)
    /\ p_pc' = "analyzed"
    /\ UNCHANGED <<p_input, p_order, p_rules, p_run, p_i, p_ctx, p_skill, p_last, p_out, p_first>>
    /\ UNCHANGED <<rvars, vvars, mvars, gvars>>

\* phase_two_parse_skills is called once more with the same debug_data, tables and
\* parsers object; what the first call gave is kept for comparison
SecondRun ==
    /\ p_pc = "analyzed" /\ p_run = 1
    /\ p_first' = <<[out |-> p_out, warnings_list |-> p_ctx.warnings_list]>>
    /\ p_run' = 2 /\ p_pc' = "call"
    /\ UNCHANGED <<p_input, p_order, p_rules, p_i, p_ctx, p_skill, p_last, p_out, p_report>>
    /\ UNCHANGED <<rvars, vvars, mvars, gvars>>

PNext ==
    \/ Integrate \/ BeginRun \/ DirectEffect \/ ClearBuffs \/ Properties \/ StatusEffects
    \/ Familiars \/ Passives \/ AppendHero \/ ReturnHeroes \/ Analyze \/ SecondRun

SpecPhase2 == PInit /\ [][PNext]_vars

-----------------------------------------------------------------------------
(* Claims about phase 2 *)

\* the elements of a list a parser makes an item for: the mappings with an id
Eligible(list) ==
    IF list.t # "list" THEN <<>>
    ELSE SelectSeq(list.el, LAMBDA e : e.t = "dict" /\ IsTruthy(GetOr(e, "id", JNull)))

\* the item is the marker of the element with this id
IsMarker(item, item_id) ==
    item.t = "dict" /\ StrOf(item, "id") = item_id /\ StrOf(item, "lang_id") = "SEARCH_FAILED"

RECURSIVE CountMarkers(_)
\* the items with lang_id SEARCH_FAILED among the items and their nested effects
CountMarkers(items) ==
    IF items = <<>> THEN 0
    ELSE (IF StrOf(Head(items), "lang_id") = "SEARCH_FAILED" THEN 1 ELSE 0)
         + CountMarkers(GetOr(Head(items), "nested_effects", JList(<<>>)).el)
         + CountMarkers(Tail(items))

\* the Template Matcher is called for the element of a property or status effect
\* list of the special, no rule naming a template for it, and returns absent
MatcherAbsent(element, lang_keys, special_data) ==
    /\ LangOverride(p_rules, CurId, StrOf(element, "id")) = <<>>
    /\ find_best_lang_id(element, lang_keys, <<>>, special_data).res.id = PyNone

\* the Template Matcher returns absent for a familiar
FamiliarAbsent(familiar_instance) ==
    LET all == SelectSeq(LangKeys(LangDb), LAMBDA k : StartsWith(k, "specials.v2."))
        primary == SelectSeq(all, LAMBDA k : Contains(k, StrOf(familiar_instance, "id")))
    IN find_best_lang_id(familiar_instance, IF primary # <<>> THEN primary ELSE all,
                         <<>>, JNull).res.id = PyNone

\* the Template Matcher returns absent for an effect of a familiar
FamiliarEffectAbsent(effect_data, familiar_instance) ==
    LET all == SelectSeq(LangKeys(LangDb),
                         LAMBDA k : /\ Contains(k, StrOf(familiar_instance, "id"))
                                    /\ (StartsWith(k, "specials.v2.")
                                        \/ StartsWith(k, "familiar.statuseffect.")))
        primary == SelectSeq(all,
                       LAMBDA k : \/ (StrOf(effect_data, "effectType") # ""
                                      /\ Contains(k, StrOf(effect_data, "effectType")))
                                  \/ Contains(k, StrOf(effect_data, "id")))
    IN find_best_lang_id(JDict(DictUpdate(familiar_instance.kv, effect_data.kv)),
                         IF primary # <<>> THEN primary ELSE all, <<>>, JNull).res.id = PyNone

\* the items stand for the elements position by position, the element the matcher
\* finds nothing for (absent[j]) by its marker, and its warning is among the warnings
MarkersInPlace(elements, items, warnings, absent) ==
    /\ Len(items) = Len(elements)
    /\ \A j \in 1..Len(elements) :
          /\ StrOf(items[j], "id") = StrOf(elements[j], "id")
          /\ absent[j] =>
                /\ IsMarker(items[j], StrOf(elements[j], "id"))
                /\ \E w \in 1..Len(warnings) :
                      Contains(warnings[w], "'" \o StrOf(elements[j], "id") \o "'")

\* the list a parser has just returned from, <<>> when none has
ParsedList ==
    IF p_i \notin 1..Len(p_order) \/ ~IsTruthy(CurSpecial) THEN <<>>
    ELSE IF p_pc = "status_effects" THEN <<"properties">>
    ELSE IF p_pc = "familiars" THEN <<"statusEffects">>
    ELSE IF p_pc = "passives" THEN <<"summonedFamiliars">>
    ELSE <<>>

\* C12: when the Template Matcher returns absent for a property, a status effect,
\* a familiar or a familiar effect, the parser returns one warning for that item,
\* puts a marker item with lang_id SEARCH_FAILED in the item's position, and goes
\* on with the remaining items of the list: the items returned stand for the
\* elements one by one, and there are as many warnings as markers.
C12_MarkerAndWarning ==
    ParsedList # <<>> =>
        LET elements == Eligible(GetOr(CurSpecial, ParsedList[1], JList(<<>>)))
            container == container_types(IF p_ctx.hero_mana_speed_id.k = "str"
                                         THEN p_ctx.hero_mana_speed_id.s ELSE "")
        IN /\ CountMarkers(p_last.items) = Len(p_last.warnings)
           /\ MarkersInPlace(elements, p_last.items, p_last.warnings,
                  [j \in 1..Len(elements) |->
                      IF ParsedList[1] = "properties"
                      THEN /\ StrOf(elements[j], "propertyType") # container
                           /\ MatcherAbsent(elements[j], p_ctx.prop_lang_subset, CurSpecial)
                      ELSE IF ParsedList[1] = "statusEffects"
                      THEN MatcherAbsent(elements[j], p_ctx.se_lang_subset, CurSpecial)
                      ELSE FamiliarAbsent(elements[j])])
           /\ ParsedList[1] = "summonedFamiliars" =>
                 \A j \in 1..Len(elements) :
                    ~FamiliarAbsent(elements[j]) =>
                        LET effects == Eligible(GetOr(elements[j], "effects", JList(<<>>)))
                        IN MarkersInPlace(effects,
                               Get(p_last.items[j].kv, "nested_effects").el, p_last.warnings,
                               [e \in 1..Len(effects) |->
                                   FamiliarEffectAbsent(effects[e], elements[j])])

\* a status effect list has been parsed whose first and third element have no
\* template and whose second has one: two markers around an item, two warnings
C12_Witness ==
    /\ ParsedList = <<"statusEffects">>
    /\ Len(p_last.items) = 3 /\ Len(p_last.warnings) = 2
    /\ IsMarker(p_last.items[1], "se_bad") /\ IsMarker(p_last.items[3], "se_bad")
    /\ StrOf(p_last.items[2], "lang_id") = "specials.v2.statuseffect.attackup"


\* the template ids of the direct effect and of the buff removal of a special that
\* are no keys of the localization table
UnknownIds(special_data) ==
    IF ~IsTruthy(special_data) THEN {}
    ELSE LET effect_data == GetOr(special_data, "directEffect", JNull)
             direct == IF IsTruthy(effect_data) /\ StrOf(effect_data, "effectType") # ""
                       THEN {DirectLangId(effect_data)} ELSE {}
             clear == IF HasKey(special_data.kv, "buffToRemove")
                      THEN {ClearBuffsLangId(special_data)} ELSE {}
         IN {id \in direct \cup clear :
                ~HasKey(LangDb, id) /\ ~HasKey(LangDb, id \o ".latest")}

\* C13: a hero whose ability has an effect (a direct effect or a buff removal
\* included) whose localization id is no key of the localization table leaves one
\* warning for it in the warning list of the run that has returned.
C13_UnknownIdWarned ==
    p_pc = "returned" =>
        \A h \in 1..Len(p_order) :
            \A id \in UnknownIds(GetOr(HeroTree(p_order[h]), "specialId_details", JNull)) :
                \E w \in 1..Len(p_ctx.warnings_list) :
                    \/ Contains(p_ctx.warnings_list[w], id)
                    \/ Contains(p_ctx.warnings_list[w], p_order[h])
                    \/ Contains(p_ctx.warnings_list[w],
                                StrOf(GetOr(HeroTree(p_order[h]), "specialId_details", JNull),
                                      "id"))


RECURSIVE WithNested(_)
\* the items and, below each, the items of its nested effects
WithNested(items) ==
    IF items = <<>> THEN <<>>
    ELSE <<Head(items)>>
         \o WithNested(GetOr(Head(items), "nested_effects", JList(<<>>)).el)
         \o WithNested(Tail(items))

\* the placeholders of a template text the item's parameters have no value for
Unresolved(template_text, item) ==
    {p \in SeqRange(FindTokens(template_text, 1)) :
        ~Contains(StrOf(item, "params"), "\"" \o p \o "\":")}

\* the English and the Japanese text of an item
TextEn(item) == IF HasKey(item.kv, "en") THEN StrOf(item, "en") ELSE StrOf(item, "description_en")
TextJa(item) == IF HasKey(item.kv, "ja") THEN StrOf(item, "ja") ELSE StrOf(item, "description_ja")

\* the items just returned that were rendered from a template of the table
Rendered ==
    LET all == WithNested(p_last.items)
    IN {i \in 1..Len(all) : all[i].t = "dict" /\ HasKey(LangDb, StrOf(all[i], "lang_id"))}

\* C14: a placeholder of a template that no value is found for stays in the rendered
\* English and Japanese text as the literal {PLACEHOLDER} token, and no warning
\* is returned or collected for it.
C14_TokenKeptNoWarning ==
    LET all == WithNested(p_last.items)
    IN \A i \in Rendered :
          LET texts == Get(LangDb, StrOf(all[i], "lang_id"))
          IN /\ \A p \in Unresolved(texts.en, all[i]) :
                   /\ Contains(TextEn(all[i]), "{" \o p \o "}")
                   /\ \A w \in 1..Len(p_last.warnings) : ~Contains(p_last.warnings[w], p)
                   /\ \A w \in 1..Len(p_ctx.warnings_list) :
                         ~Contains(p_ctx.warnings_list[w], p)
             /\ \A p \in Unresolved(texts.ja, all[i]) :
                   Contains(TextJa(all[i]), "{" \o p \o "}")

\* the property of the first hero has been rendered from a template with {POWER}
\* and {QQ}: POWER has a value, QQ has none and is still in both texts, and the
\* warning list is empty
C14_Witness ==
    /\ p_pc = "status_effects" /\ p_i = 1 /\ Len(p_last.items) = 1
    /\ StrOf(p_last.items[1], "lang_id") = "specials.v2.property.extradamage"
    /\ Unresolved(Get(LangDb, "specials.v2.property.extradamage").en, p_last.items[1]) = {"QQ"}
    /\ StrOf(p_last.items[1], "en") = "Extra 30% damage {QQ}"
    /\ StrOf(p_last.items[1], "ja") = "tsuika 30% {QQ}"
    /\ p_ctx.warnings_list = <<>>


\* the rendered texts of an item: its descriptions, its titles, and the texts of
\* its tooltip (extra)
RenderedTexts(item) ==
    IF item.t # "dict" THEN <<>>
    ELSE LET own == SelectSeq(item.kv,
                        LAMBDA e : e.v.t = "str"
                                   /\ e.k \in {"en", "ja", "description_en", "description_ja",
                                               "title_en", "title_ja"})
             extra == GetOr(item, "extra", JDict(<<>>))
             tips == SelectSeq(extra.kv, LAMBDA e : e.v.t = "str" /\ e.k \in {"en", "ja"})
         IN [i \in 1..Len(own) |-> own[i].v.s] \o [i \in 1..Len(tips) |-> tips[i].v.s]

\* the tokens left in the rendered texts of the output, one for each occurrence
LeftoverTokens(final_hero_data) ==
    Flat([h \in 1..Len(final_hero_data) |->
             LET items == WithNested(HeroItems(final_hero_data[h]))
             IN Flat([i \in 1..Len(items) |->
                         LET texts == RenderedTexts(items[i])
                         IN Flat([x \in 1..Len(texts) |-> FindTokens(texts[x], 1)])])])

\* C15: every {PLACEHOLDER} token left in a rendered text of the final output (main
\* descriptions, nested effects, passive titles and descriptions, tooltip texts)
\* is counted in the unresolved-placeholder report of the end of the run.
C15_EveryTokenCounted ==
    p_pc = "analyzed" =>
        LET found == LeftoverTokens(p_out)
        IN \A t \in SeqRange(found) :
              /\ t \in DOMAIN p_report
              /\ p_report[t] = Cardinality({i \in 1..Len(found) : found[i] = t})


\* the record of a hero that phase 2 gives when the hero is the only one of
\* debug_data and the parsers dict is the one main has just built
HeroAlone(hero_id) ==
    LET tree == HeroTree(hero_id)
        special == GetOr(tree, "specialId_details", JNull)
        env == HeroEnv(hero_id)
        ctx0 == [Parsers(LangDb) EXCEPT !.hero_mana_speed_id =
                                           PyOf(GetOr(tree, "manaSpeedId", JNull))]
        cb == parse_clear_buffs(special, LangDb)
        pr == parse_properties(GetOr(special, "properties", JList(<<>>)), special, env, ctx0)
        se == parse_status_effects(GetOr(special, "statusEffects", JList(<<>>)), special,
                                   env, pr.ctx)
        fa == parse_familiars(GetOr(special, "summonedFamiliars", JList(<<>>)), special,
                              env, se.ctx)
        ps == parse_passive_skills(all_passives(tree), env,
                                   IF IsTruthy(special) THEN fa.ctx ELSE Parsers(LangDb))
    IN ProcessedHero(hero_id,
           (IF IsTruthy(special)
            THEN <<KV("directEffect", parse_direct_effect(special, LangDb, ctx0)),
                   KV("clear_buffs", IF cb = <<>> THEN JNull ELSE cb[1]),
                   KV("properties", JList(pr.items)),
                   KV("statusEffects", JList(se.items)),
                   KV("familiars", JList(fa.items))>>
            ELSE <<>>)
           \o (IF IsTruthy(all_passives(tree))
               THEN <<KV("passiveSkills", JList(ps.items))>> ELSE <<>>))

\* C16: the record of a hero is the same whichever heroes were processed before it
\* in the run: it is the record the hero gets when it is processed alone.
C16_IndependentOfEarlier ==
    p_run = 1 => \A h \in 1..Len(p_out) : p_out[h] = HeroAlone(p_out[h].id)


\* C17: a second call of phase 2 on the same debug_data, with the same tables and
\* the same parsers object, returns the records of the first call, with the same
\* rendered texts for every hero, and leaves the same warning list.
C17_SecondRunIdentical ==
    (p_run = 2 /\ p_pc = "returned") =>
        /\ p_out = p_first[1].out
        /\ p_ctx.warnings_list = p_first[1].warnings_list


\* the warnings of a list that are not in the warning list yet, each once, in the
\* order of their first occurrence
FirstOccurrences(new_warnings, warnings_list) ==
    Distinct(SelectSeq(new_warnings, LAMBDA w : w \notin SeqRange(warnings_list)))

\* C18: at every point of a run of phase 2 the warning list holds no string twice
\* and the set of its entries is the unique-warning set; a step of the run other
\* than its start keeps the entries the list has, in their order, and puts behind
\* them the warnings just returned that are new, in the order of their first
\* occurrence.
C18_WarningList ==
    /\ [](/\ \A i, j \in 1..Len(p_ctx.warnings_list) :
                i # j => p_ctx.warnings_list[i] # p_ctx.warnings_list[j]
          /\ SeqRange(p_ctx.warnings_list) = p_ctx.unique_warnings_set)
    /\ [][p_pc # "call" =>
             p_ctx'.warnings_list =
                 p_ctx.warnings_list
                 \o FirstOccurrences(p_last'.warnings, p_ctx.warnings_list)]_vars

\* a parser has returned the same warning twice, after an earlier hero left one:
\* the list holds the earlier warning and, once, the new one
C18_Witness ==
    /\ Len(p_last.warnings) = 2 /\ p_last.warnings[1] = p_last.warnings[2]
    /\ Len(p_ctx.warnings_list) = 2
    /\ p_ctx.warnings_list[2] = p_last.warnings[1]
    /\ p_ctx.warnings_list[1] # p_last.warnings[1]


\* a hero with one special that has a direct damage effect and no buff removal,
\* properties, status effects or familiars, and without passive skills
Minimal(tree) ==
    LET special == GetOr(tree, "specialId_details", JNull)
    IN /\ IsTruthy(special)
       /\ StrOf(GetOr(special, "directEffect", JNull), "effectType") = "Damage"
       /\ \A key \in {"buffToRemove", "properties", "statusEffects", "summonedFamiliars"} :
             ~HasKey(special.kv, key)
       /\ ~IsTruthy(all_passives(tree))

\* C19: the record of a minimal hero has exactly one description category, the
\* direct effect, which is not empty, and no step of the run that works on the hero
\* changes the warning list.
C19_MinimalHero ==
    /\ [](\A h \in 1..Len(p_out) :
             Minimal(HeroTree(p_out[h].id)) =>
                 /\ Len(p_out[h].skillDescriptions) = 1
                 /\ p_out[h].skillDescriptions[1].k = "directEffect"
                 /\ StrOf(p_out[h].skillDescriptions[1].v, "en") # "")
    /\ [][(p_pc # "call" /\ p_i \in 1..Len(p_order) /\ Minimal(CurTree)) =>
              p_ctx'.warnings_list = p_ctx.warnings_list]_vars

\* the minimal hero has been processed after a hero that left a warning: its record
\* holds the one category with the text rendered for its 1500 per mil
C19_Witness ==
    /\ Len(p_out) = 2 /\ Minimal(HeroTree(p_out[2].id))
    /\ Len(p_out[2].skillDescriptions) = 1
    /\ StrOf(p_out[2].skillDescriptions[1].v, "en") = "Deals 150% damage"
    /\ Len(p_ctx.warnings_list) = 1


\* C20: phase 2 never aborts: no run ends in the exception of an element of a
\* summonedFamiliars or familiar effects list that is an identifier string, and a
\* returned run holds one record for every hero of the input.
C20_NeverAborts ==
    /\ p_pc # "fatal"
    /\ p_pc = "returned" => [h \in 1..Len(p_out) |-> p_out[h].id] = p_order


\* the ids of the records phase 2 has appended so far
RecordIds == [h \in 1..Len(p_out) |-> p_out[h].id]

\* the position of the first hero of the list with this id
FirstAt(id) == CHOOSE i \in 1..Len(p_input) : p_input[i] = id /\ \A j \in 1..(i - 1) : p_input[j] # id

SpecificRule(item_id) ==
    IF /\ CurId \in DOMAIN p_rules.lang_overrides.specific
       /\ item_id \in DOMAIN p_rules.lang_overrides.specific[CurId]
    THEN <<p_rules.lang_overrides.specific[CurId][item_id]>> ELSE <<>>

\* the common rule for the item, <<>> for none
CommonRule(item_id) ==
    IF item_id \in DOMAIN p_rules.lang_overrides.common
    THEN <<p_rules.lang_overrides.common[item_id]>> ELSE <<>>

\* the element of a properties list is the container of the hero's mana speed
IsContainerProperty(element) ==
    /\ ParsedList = <<"properties">>
    /\ StrOf(element, "propertyType")
           = container_types(IF p_ctx.hero_mana_speed_id.k = "str"
                             THEN p_ctx.hero_mana_speed_id.s ELSE "")

\* the item of an element for which a rule names a template has this template, the
\* hero's before the common one, and the parser returned no warning that names it
RuleForces(element, item) ==
    LET item_id == StrOf(element, "id")
        rule == IF SpecificRule(item_id) # <<>> THEN SpecificRule(item_id)
                ELSE CommonRule(item_id)
    IN rule # <<>> =>
          /\ StrOf(item, "id") = item_id
          /\ StrOf(item, "lang_id") = rule[1]
          /\ \A w \in 1..Len(p_last.warnings) :
                ~Contains(p_last.warnings[w], "'" \o item_id \o "'")

\* C22, as stated: for every property and status-effect item, a localization-id
\* override rule keyed by the item's id forces the template id.
C22_OverrideForcesAll ==
    ParsedList \in {<<"properties">>, <<"statusEffects">>} =>
        LET elements == Eligible(GetOr(CurSpecial, ParsedList[1], JList(<<>>)))
        IN /\ Len(p_last.items) = Len(elements)
           /\ \A j \in 1..Len(elements) : RuleForces(elements[j], p_last.items[j])

\* C22: for a property that is not the container of the hero's mana speed, and for
\* a status effect, a localization-id override rule keyed by the item's id forces
\* the template id and the Template Matcher is not consulted (no warning of it is
\* returned); when both a rule of the current hero and a common rule exist for the
\* id, the hero's rule is the one used.
C22_OverrideForces ==
    ParsedList \in {<<"properties">>, <<"statusEffects">>} =>
        LET elements == Eligible(GetOr(CurSpecial, ParsedList[1], JList(<<>>)))
        IN /\ Len(p_last.items) = Len(elements)
           /\ \A j \in 1..Len(elements) :
                 ~IsContainerProperty(elements[j]) =>
                     RuleForces(elements[j], p_last.items[j])

\* the property of h_lvl has been parsed under a rule of the hero and a common rule:
\* the item has the template of the hero's rule, which the matcher would not choose
C22_Witness ==
    /\ ParsedList = <<"properties">> /\ CurId = "h_lvl"
    /\ SpecificRule("prop_a") = <<"specials.v2.directeffect.damage">>
    /\ CommonRule("prop_a") = <<"specials.v2.statuseffect.attackup">>
    /\ Len(p_last.items) = 1
    /\ StrOf(p_last.items[1], "lang_id") = "specials.v2.directeffect.damage"
    /\ find_best_lang_id(Eligible(GetOr(CurSpecial, "properties", JList(<<>>)))[1],
                         p_ctx.prop_lang_subset, <<>>, CurSpecial).res.id
          = PyStr("specials.v2.property.extradamage")


\* C23: for a familiar and for a familiar effect, a localization-id override rule
\* keyed by the item's id is applied before the Template Matcher and forces the
\* item's template id.
C23_FamiliarOverride ==
    ParsedList = <<"summonedFamiliars">> =>
        LET elements == Eligible(GetOr(CurSpecial, "summonedFamiliars", JList(<<>>)))
        IN /\ Len(p_last.items) = Len(elements)
           /\ \A j \in 1..Len(elements) :
                 /\ RuleForces(elements[j], p_last.items[j])
                 /\ LET effects == Eligible(GetOr(elements[j], "effects", JList(<<>>)))
                        nested == GetOr(p_last.items[j], "nested_effects", JList(<<>>)).el
                    IN \A e \in 1..Len(effects) :
                          e <= Len(nested) /\ RuleForces(effects[e], nested[e])


\* the value rule of the current hero for the placeholder, else the common one,
\* <<>> for none
ValueRule(p_holder) ==
    LET rs == p_rules.hero_rules
    IN IF CurId \in DOMAIN rs.specific /\ p_holder \in DOMAIN rs.specific[CurId]
       THEN <<rs.specific[CurId][p_holder]>>
       ELSE IF p_holder \in DOMAIN rs.common THEN <<rs.common[p_holder]>> ELSE <<>>

\* the parameters of the item hold this number under this name
HoldsParam(item, name, digits) ==
    \/ Contains(StrOf(item, "params"), "\"" \o name \o "\": " \o digits \o ",")
    \/ Contains(StrOf(item, "params"), "\"" \o name \o "\": " \o digits \o "}")

\* C28: in the item of a status effect with turns > 0, TURNS is the effect's own
\* turns value, whatever value rule there is for TURNS, and the template's
\* placeholder {TURNS} is filled with it; every other placeholder of the template
\* for which there is a fixed rule has the value of the rule, the hero's before
\* the common one.
C28_TurnsOwnValue ==
    ParsedList = <<"statusEffects">> =>
        LET elements == Eligible(GetOr(CurSpecial, "statusEffects", JList(<<>>)))
        IN \A j \in 1..Len(elements) :
              LET item == p_last.items[j]
                  turns == NumField(elements[j], "turns")
                  template_text == TemplateEn(LangDb, StrOf(item, "lang_id"))
                  names == Placeholders(template_text)
              IN (turns > 0 /\ ~IsMarker(item, StrOf(elements[j], "id"))) =>
                    /\ HoldsParam(item, "TURNS", IntStr(turns))
                    /\ names = <<"TURNS">> =>
                          StrOf(item, "en") = Replace(template_text, "{TURNS}", IntStr(turns))
                    /\ \A n \in 1..Len(names) :
                          (names[n] # "TURNS" /\ ValueRule(names[n]) # <<>>) =>
                              HoldsParam(item, names[n], ValueRule(names[n])[1].value)

\* the status effects of h_se have been parsed under the hero's rule TURNS = 7: the
\* effect with 3 turns has the template with {TURNS} and the text with 3
C28_Witness ==
    /\ ParsedList = <<"statusEffects">> /\ CurId = "h_se"
    /\ ValueRule("TURNS") # <<>> /\ ValueRule("TURNS")[1].value = "7"
    /\ Len(p_last.items) = 3
    /\ StrOf(p_last.items[2], "lang_id") = "specials.v2.statuseffect.attackup"
    /\ StrOf(p_last.items[2], "en") = "Attack up for 3 turns"
    /\ HoldsParam(p_last.items[2], "TURNS", "3")


\* C26: in buff-removal parsing the side segment of the template id is inferred
\* from the buff/debuff keyword only when the ability does not state the side: when
\* buffToRemoveSideAffected is present, its lower-cased value is the side segment.
C26_ExplicitSide ==
    (/\ p_pc = "properties" /\ HasKey(CurSpecial.kv, "buffToRemove")
     /\ StrOf(CurSpecial, "buffToRemoveSideAffected") # "") =>
        /\ Len(p_last.items) = 1
        /\ LET lang_id == StrOf(p_last.items[1], "lang_id")
               side == "." \o Lower(StrOf(CurSpecial, "buffToRemoveSideAffected"))
           IN EndsWith(lang_id, side) \/ EndsWith(lang_id, side \o ".latest")


\* the familiar audit log keeps its entries and has n more
LogGrowsBy(n) ==
    /\ Len(p_ctx'.familiar_parameter_log) = Len(p_ctx.familiar_parameter_log) + n
    /\ SubSeq(p_ctx'.familiar_parameter_log, 1, Len(p_ctx.familiar_parameter_log))
          = p_ctx.familiar_parameter_log

\* within a run the familiar audit log only grows at its end
C27_AppendOnly ==
    [][p_pc # "call" =>
          \E n \in 0..Len(p_ctx'.familiar_parameter_log) : LogGrowsBy(n)]_vars

\* C27, as stated: the familiar audit log is append-only during a phase-2 run, and
\* every familiar with an id that the familiar parser processes adds exactly one
\* entry, a familiar for which no template id is found included.
C27_EveryFamiliarLogged ==
    /\ C27_AppendOnly
    /\ [][(p_pc = "familiars" /\ p_pc' = "passives") =>
             LogGrowsBy(Len(Eligible(GetOr(CurSpecial, "summonedFamiliars", JList(<<>>)))))]_vars

\* the entry holds the hero, the familiar, its raw health and the health derived
\* from it, and its attack numbers or the note that it has none
EntryOf(entry, familiar_instance) ==
    LET raw == NumField(familiar_instance, "healthPerMil")
        inc == NumField(familiar_instance, "healthPerLevelPerMil")
    IN /\ Get(entry, "hero_id") = PyStr(CurId)
       /\ Get(entry, "familiar_id") = PyStr(StrOf(familiar_instance, "id"))
       /\ Get(entry, "raw_healthPerMil") = PyInt(raw)
       /\ Get(entry, "calculated_health")
             = PyFloat(raw + inc * (MaxLevelOf(CurSpecial, 8) - 1))
       /\ \/ Get(entry, "raw_attackPercentPerMil") = PyStr("NOT_FOUND")
          \/ HasKey(entry, "calculated_attack")

\* C27: the familiar audit log is append-only during a phase-2 run, and a call of the
\* familiar parser that returns adds, in the order of the list, exactly one entry for
\* every familiar with an id for which a template id is found, holding its raw and
\* derived numbers; a familiar for which no template id is found adds no entry.
C27_TemplatedFamiliarLogged ==
    /\ C27_AppendOnly
    /\ [][(p_pc = "familiars" /\ p_pc' = "passives") =>
             LET elements == Eligible(GetOr(CurSpecial, "summonedFamiliars", JList(<<>>)))
                 found == {j \in 1..Len(elements) :
                              ~IsMarker(p_last'.items[j], StrOf(elements[j], "id"))}
                 old == Len(p_ctx.familiar_parameter_log)
             IN /\ Len(p_last'.items) = Len(elements)
                /\ LogGrowsBy(Cardinality(found))
                /\ \A j \in found :
                      EntryOf(p_ctx'.familiar_parameter_log[
                                  old + Cardinality({m \in found : m <= j})],
                              elements[j])]_vars

\* the familiars of h_fam have been parsed: the first has no template and no entry,
\* the second has the one entry of the log, with raw health 100 and derived 17.0
C27_Witness ==
    /\ p_pc = "passives" /\ CurId = "h_fam" /\ p_i = 1
    /\ Len(p_last.items) = 2 /\ IsMarker(p_last.items[1], "fam_bad")
    /\ Len(p_ctx.familiar_parameter_log) = 1
    /\ Get(p_ctx.familiar_parameter_log[1], "familiar_id") = PyStr("fam_a")
    /\ Get(p_ctx.familiar_parameter_log[1], "raw_healthPerMil") = PyInt(100)
    /\ Get(p_ctx.familiar_parameter_log[1], "calculated_health") = PyFloat(170)


\* the block without its field hasFixedPower
WithoutFixedPower(data_block) ==
    JDict(SelectSeq(data_block.kv, LAMBDA e : e.k # "hasFixedPower"))

\* C24: in the general path, when the block's field hasFixedPower is truthy, every
\* candidate id with a segment "fixedpower" scores 3 more than it scores for the
\* same block without hasFixedPower.
C24_FixedPowerBonus ==
    (GeneralPath /\ IsTruthy(GetOr(m_block, "hasFixedPower", JNull))) =>
        \A i \in 1..Len(lang_key_subset) :
            "fixedpower" \in SeqRange(Split(Lower(lang_key_subset[i]), ".")) =>
                ScoreAt(i) = 3 + LangScore(WithoutFixedPower(m_block),
                                           seen_keywords(WithoutFixedPower(m_block), m_parent),
                                           lang_key_subset[i])


\* the orderings of a candidate list
Orderings(lang_keys) ==
    {q \in [1..Len(lang_keys) -> SeqRange(lang_keys)] :
        \A k \in SeqRange(lang_keys) :
            Cardinality({i \in 1..Len(q) : q[i] = k})
                = Cardinality({i \in 1..Len(lang_keys) : lang_keys[i] = k})}

\* C25: for a fixed block and a fixed set of candidate ids, find_best_lang_id returns
\* the same id for every ordering of the candidate list, candidates of the same
\* score and the same length included.
C25_OrderIndependent ==
    m_done =>
        \A q \in Orderings(lang_key_subset) :
            find_best_lang_id(m_block, q, <<>>, m_parent).res.id = m_res.id


\* the call with this parent block takes the general path
GeneralPathWith(parent_block) ==
    LET c == ConstructedId(m_block, parent_block)
    IN ~(c # <<>> /\ c[1] \in SeqRange(lang_key_subset))

\* C29: in the general path the parent block contributes no keyword: for the block
\* and the candidates of the call, every candidate has the same score under every
\* parent block, and every parent block with which the call takes the general path
\* gives the same result.
C29_ParentNoKeyword ==
    GeneralPath =>
        \A parent_block \in Parents :
            /\ \A i \in 1..Len(lang_key_subset) :
                  LangScore(m_block, seen_keywords(m_block, parent_block), lang_key_subset[i])
                     = ScoreAt(i)
            /\ GeneralPathWith(parent_block) =>
                  find_best_lang_id(m_block, lang_key_subset, <<>>, parent_block).res = m_res

\* a call in the general path whose parent block holds the strings "Allies" and
\* "All": a candidate with the segment allies scores 0, another one is returned
C29_Witness ==
    /\ GeneralPath
    /\ StrOf(m_parent, "statusTargetType") = "Allies"
    /\ lang_key_subset = <<"familiar.allies", "q.heal">>
    /\ ScoreAt(1) = 0
    /\ m_res.id = PyStr("q.heal")


\* the placeholder of the call is written in capital letters only
AllCapitals == 
    /\ Len(vcall.p_holder) > 0
    /\ \A i \in 1..Len(vcall.p_holder) : IsUpperChar(CharAt(vcall.p_holder, i))

\* the letters of the placeholder of the call, by position, that the key holds
LettersIn(key) ==
    {i \in 1..Len(vcall.p_holder) :
        Contains(Lower(key), LowerChar(CharAt(vcall.p_holder, i)))}

\* 10 for every letter of the placeholder that the key holds, and the two bonuses
LetterScore(key) ==
    10 * Cardinality(LettersIn(key))
    + (IF Contains(Lower(key), "power") \/ Contains(Lower(key), "modifier") THEN 5 ELSE 0)
    + (IF Contains(Lower(key), "permil") THEN 3 ELSE 0)

\* the keys of the numeric leaves looked at that hold a letter of the placeholder
LetterCandidates ==
    LET flat_data == FlatOfCall
    IN {flat_data[i].k : i \in {j \in 1..Len(flat_data) :
            IsNumber(flat_data[j].v) /\ LettersIn(flat_data[j].k) # {}}}

\* C30: for a placeholder written in capital letters only, the fragments searched
\* for are its letters, one per letter: every numeric leaf whose lower-cased key
\* holds at least one of the letters is a candidate, the search finds nothing only
\* when there is none, and the leaf selected is a candidate of the highest score,
\* the score being 10 per letter of the name found in the key (plus the bonuses of
\* the key), the shortest key among equals.
C30_LetterFragments ==
    (vcalled /\ vcall.data_block.t = "dict" /\ RuleOfCall = <<>> /\ AllCapitals) =>
        /\ ph_keywords(vcall.p_holder)
              = [i \in 1..Len(vcall.p_holder) |-> LowerChar(CharAt(vcall.p_holder, i))]
        /\ vres.src = PyNone <=> LetterCandidates = {}
        /\ vres.src # PyNone =>
              /\ vres.src.s \in LetterCandidates
              /\ \A k \in LetterCandidates :
                    \/ LetterScore(k) < LetterScore(vres.src.s)
                    \/ /\ LetterScore(k) = LetterScore(vres.src.s)
                       /\ Len(k) >= Len(vres.src.s)

\* the placeholder AX on leaves tax, xa, ay and b: xa, which holds both letters but
\* not the name, is selected before tax, which holds the name; ay is a candidate
C30_Witness ==
    /\ Searched /\ vcall.p_holder = "AX"
    /\ LetterCandidates = {"tax", "xa", "ay"}
    /\ vres.src = PyStr("xa")
    /\ ~Contains("xa", Lower(vcall.p_holder))
    /\ LetterScore("xa") = 20 /\ LetterScore("ay") = 10

=============================================================================
